---------------------------- MODULE Spec2Model ----------------------------
(***************************************************************************)
(* Poker engine: the room monitor's start/stop transitions, the explicit   *)
(* stop handler and the deck store, over one room of a Redis-like store.   *)
(* Every store command is one atomic step; a pipeline is a queue of        *)
(* commands the store applies one by one (Pipeline(), not TxPipeline()).   *)
(***************************************************************************)
EXTENDS Integers, Sequences, FiniteSets, TLC

\* ------------------------------------------------------------- bounds
NumPlayers == 3      \* seats that may be taken in the modelled room
MaxChurn == 2        \* sit-down / stand-up events of one run
MaxCalls == 2        \* consecutive GameStopHandler.Handle calls of one run
MaxDeck == 5         \* cards of the deck saved for the draw model
MaxDraw == 2         \* largest count given to DrawCards
NumDrawers == 2      \* callers drawing from the room's deck at once
NumDealers == 2      \* dealers working on the room's deck at once
NumSeeds == 3        \* random sources a shuffle may run with
MaxOps == 3          \* deck operations a dealer run calls
MaxDeals == 1        \* calls of the card dealer's methods in one run
NumRooms == 2        \* active rooms of the club the monitor scans
NumStarters == 2     \* callers of RoomMonitor.Start
MaxTicks == 2        \* ticks the ticker delivers in one run
MaxShuffle == 4      \* cards of a sequence given to ShuffleDeck
MaxCreates == 2      \* CreateDeck calls of one run
MaxWalk == 8         \* phases of one NextPhase walk, the first included

\* ------------------------------------------------- program constants
MinPlayersToStart == 2

Players == 1..NumPlayers

Drawers == 1..NumDrawers

Dealers == 1..NumDealers

Seeds == 0..(NumSeeds - 1)
\* Rooms in the club's active-rooms sorted set.
Rooms == 1..NumRooms
\* Goroutines that call RoomMonitor.Start.
Starters == 1..NumStarters

Phases == <<"waiting", "pre_flop", "flop", "turn", "river", "showdown", "finished">>
PhaseSet == {Phases[i] : i \in 1..Len(Phases)}

Suits == <<"H", "D", "C", "S">>
Ranks == <<"A", "2", "3", "4", "5", "6", "7", "8", "9", "T", "J", "Q", "K">>

\* A deck built with the rank loop outside the suit loop.
CreateDeckRankMajor ==
    [i \in 1..(Len(Suits) * Len(Ranks)) |->
        Ranks[((i - 1) \div Len(Suits)) + 1] \o Suits[((i - 1) % Len(Suits)) + 1]]

\* CreateDeck: for each suit, for each rank, rank + suit (52 cards).
CreateDeck ==
    [i \in 1..(Len(Suits) * Len(Ranks)) |->
        Ranks[((i - 1) % Len(Ranks)) + 1] \o Suits[((i - 1) \div Len(Ranks)) + 1]]

\* ------------------------------------------------------------- state
VARIABLES
    seated,      \* room players set (SCARD / SMEMBERS)
    player,      \* player hashes: [Players -> record]
    room,        \* room info hash
    game,        \* game state hash
    actions,     \* room actions list (RPUSH)
    churn,       \* seating events so far
    pc,          \* monitor: position inside checkRoom
    mCount,      \* monitor: playersCount read by GetPlayersCount
    mPhase,      \* monitor: game.Phase read by GetGameState
    mKind,       \* monitor: transition chosen ("start", "stop", "none")
    mPipe,       \* monitor: commands queued in the pipeline, not yet applied
    mResult,     \* monitor: how the tick ended
    mLogged,     \* monitor: the action-log append succeeded
    hRoom,       \* history: room info hash when the tick began
    hGame,       \* history: game hash when the tick began
    hLog,        \* history: Len(actions) when the tick began
    hpc,         \* stop handler: position inside Handle
    hPrev,       \* stop handler: previousPhase argument
    hReason,     \* stop handler: reason argument
    hPipe,       \* stop handler: commands queued, not yet applied
    hIds,        \* stop handler: player ids still to reset
    hResult,     \* stop handler: what the current call returns
    hLogged,     \* stop handler: the action-log append succeeded
    hCalls,      \* stop handler: calls started so far
    hSnap,       \* history: room, game and log length when the call began
    hWrote,      \* history: the current call wrote to the store
    hActive0,    \* history: the first call began on a room with an active game
    hFirst,      \* history: how the first call ended
    deck,        \* room deck list (RPUSH / RPOP)
    dpc,         \* drawers: position inside DrawCards
    dLeft,       \* drawers: iterations left of the DrawCards loop
    dCards,      \* drawers: cards appended so far by the running call
    returned,    \* history: cards handed back to callers
    dupReturn,   \* history: some card was handed back twice
    dealer,      \* dealers: position and locals of the running deck operation
    kh,          \* history: last saved deck, cards drawn since, failures
    kOps,        \* dealer operations called so far
    gPhase,      \* in-memory Game: its Phase
    gTo,         \* argument of CanTransitionTo
    gCan,        \* result of CanTransitionTo ("" before the call)
    gTrail,      \* history: phases NextPhase has returned
    isRunning,   \* RoomMonitor.isRunning
    ctxDone,     \* RoomMonitor.ctx is cancelled
    redisClosed, \* the application closed the store connection
    ticker,      \* RoomMonitor.ticker: running, and a tick waiting in its channel
    ticks,       \* ticks delivered so far
    loop,        \* Start callers: position and locals inside Start / checkAllRooms
    stopper,     \* Shutdown: position inside Stop and after it
    rst,         \* scanned rooms: player count and game phase in the store
    fpc,         \* deck functions: position inside ShuffleDeck
    fIn,         \* deck functions: the caller's slice given to ShuffleDeck
    fArg,        \* history: that slice as it was at the call
    fOut,        \* deck functions: the slice ShuffleDeck works on and returns
    fI,          \* deck functions: loop index of ShuffleDeck
    fDeck,       \* deck functions: decks CreateDeck has returned
    sh,          \* start handler: position and locals inside GameStartHandler.Handle
    fc,          \* ForceCheck / CheckSpecificRoom: position and locals of its checkRoom
    cleaned      \* history: CleanupRoom has deleted the room's keys

storeVars == <<seated, player, room, game, actions, churn>>
monVars == <<pc, mCount, mPhase, mKind, mPipe, mResult, mLogged, hRoom, hGame, hLog>>
stopVars == <<hpc, hPrev, hReason, hPipe, hIds, hResult, hLogged, hCalls,
              hSnap, hWrote, hActive0, hFirst>>
deckVars == <<deck, dpc, dLeft, dCards, returned, dupReturn>>
dealVars == <<dealer, kh, kOps>>
phaseVars == <<gPhase, gTo, gCan, gTrail>>
loopVars == <<isRunning, ctxDone, redisClosed, ticker, ticks, loop, stopper, rst>>
fnVars == <<fpc, fIn, fArg, fOut, fI, fDeck>>
extVars == <<sh, fc, cleaned>>
vars == <<storeVars, monVars, stopVars, deckVars, dealVars, phaseVars, loopVars, fnVars, extVars>>

\* ------------------------------------------------------ stored records
NoRoom == [exists |-> FALSE, status |-> ""]

RoomIn(status) == [exists |-> TRUE, status |-> status]

NoGame ==
    [exists |-> FALSE, phase |-> "", game_id |-> "", started_at |-> "",
     pot |-> 0, current_bet |-> 0, current_player_position |-> "",
     community_cards |-> <<>>]

\* Cards on the table in each phase of a hand.
BoardSize(phase) ==
    CASE phase = "flop" -> 3
      [] phase = "turn" -> 4
      [] phase \in {"river", "showdown", "finished"} -> 5
      [] OTHER -> 0

\* A game hash as the engine leaves it in the given phase.
GameIn(phase) ==
    IF phase = "waiting"
    THEN [NoGame EXCEPT !.exists = TRUE, !.phase = "waiting"]
    ELSE [exists |-> TRUE, phase |-> phase, game_id |-> "g0", started_at |-> "t0",
          pot |-> 30, current_bet |-> 10, current_player_position |-> "1",
          community_cards |-> SubSeq(CreateDeck, 1, BoardSize(phase))]

NoPlayer ==
    [exists |-> FALSE, status |-> "", bet |-> 0, cards |-> <<>>, last_action |-> "",
     is_dealer |-> FALSE, is_small_blind |-> FALSE, is_big_blind |-> FALSE]

\* The seven fields resetPlayerState writes.
ResetFields ==
    [exists |-> TRUE, status |-> "waiting", bet |-> 0, cards |-> <<>>, last_action |-> "",
     is_dealer |-> FALSE, is_small_blind |-> FALSE, is_big_blind |-> FALSE]

\* A player in the middle of a hand.
InHand(p) ==
    [exists |-> TRUE, status |-> "active", bet |-> 10,
     cards |-> <<CreateDeck[5 + 2 * p], CreateDeck[6 + 2 * p]>>, last_action |-> "call",
     is_dealer |-> (p = 1), is_small_blind |-> (p = 2), is_big_blind |-> (p = 3)]

\* ------------------------------------------------------ store commands
\* HSET key field value: creates the hash when it does not exist.
HSetGame(g, field, value) ==
    [[g EXCEPT !.exists = TRUE] EXCEPT ![field] = value]

HSetRoom(r, field, value) ==
    [[r EXCEPT !.exists = TRUE] EXCEPT ![field] = value]

\* One queued pipeline command applied to the (room info, game state) pair.
ApplyCmd(cmd, r, g) ==
    IF cmd.key = "room"
    THEN <<HSetRoom(r, cmd.field, cmd.value), g>>
    ELSE <<r, HSetGame(g, cmd.field, cmd.value)>>

Cmd(key, field, value) == [key |-> key, field |-> field, value |-> value]

\* The commands handleGameStart queues, in order.
StartCmds(gameID, startedAt) ==
    << Cmd("room", "status", "gaming"),
       Cmd("game", "phase", "pre_flop"),
       Cmd("game", "game_id", gameID),
       Cmd("game", "started_at", startedAt),
       Cmd("game", "pot", 0),
       Cmd("game", "current_bet", 0) >>

\* handleGameStop without the community-card reset.
StopCmdsKeepBoard ==
    << Cmd("room", "status", "waiting"),
       Cmd("game", "phase", "waiting"),
       Cmd("game", "game_id", ""),
       Cmd("game", "started_at", ""),
       Cmd("game", "pot", 0),
       Cmd("game", "current_bet", 0) >>

\* The commands handleGameStop queues, in order.
StopCmds ==
    << Cmd("room", "status", "waiting"),
       Cmd("game", "phase", "waiting"),
       Cmd("game", "game_id", ""),
       Cmd("game", "started_at", ""),
       Cmd("game", "pot", 0),
       Cmd("game", "current_bet", 0),
       Cmd("game", "community_cards", <<>>) >>

\* gameID: time stamp + "_" + club + "_" + room, never empty.
NewGameID == "20060102150405" \o "_" \o "c1" \o "_" \o "r1"
NewStartedAt == "2006-01-02T15:04:05Z"

\* checkRoom starting only above the minimum (> for >=).
DecideStrictStart(count, phase) ==
    IF count > MinPlayersToStart /\ phase = "waiting" THEN "start"
    ELSE IF count < MinPlayersToStart /\ phase # "waiting" THEN "stop"
    ELSE "none"

\* checkRoom restarting a hand that runs with enough players (case 3 acting).
DecideRestart(count, phase) ==
    IF count >= MinPlayersToStart THEN "start"
    ELSE IF count < MinPlayersToStart /\ phase # "waiting" THEN "stop"
    ELSE "none"

\* checkRoom stopping only an empty room (a grace for the last player).
DecideGrace(count, phase) ==
    IF count >= MinPlayersToStart /\ phase = "waiting" THEN "start"
    ELSE IF count < MinPlayersToStart - 1 /\ phase # "waiting" THEN "stop"
    ELSE "none"

\* checkRoom's decision on the count and the phase it read.
Decide(count, phase) ==
    IF count >= MinPlayersToStart /\ phase = "waiting" THEN "start"
    ELSE IF count < MinPlayersToStart /\ phase # "waiting" THEN "stop"
    ELSE "none"

\* LogGameStarted / LogGameStopped entries.
GameStartedEntry(gameID, playersCount) ==
    [action |-> "game_started", source |-> "game_engine", game_id |-> gameID,
     phase |-> "pre_flop", players_count |-> playersCount,
     previous_phase |-> "", reason |-> ""]

GameStoppedEntry(previousPhase, reason) ==
    [action |-> "game_stopped", source |-> "game_engine", game_id |-> "",
     phase |-> "", players_count |-> 0,
     previous_phase |-> previousPhase, reason |-> reason]

\* -------------------------------------------------------------- Init
MonIdle ==
    /\ pc = "idle" /\ mCount = 0 /\ mPhase = "" /\ mKind = "none" /\ mPipe = <<>>
    /\ mResult = "" /\ mLogged = FALSE
    /\ hRoom = NoRoom /\ hGame = NoGame /\ hLog = 0

NoSnap == [room |-> NoRoom, game |-> NoGame, log |-> 0]

StopIdle ==
    /\ hpc = "idle" /\ hPrev = "" /\ hReason = "" /\ hPipe = <<>> /\ hIds = {}
    /\ hResult = "" /\ hLogged = FALSE /\ hCalls = 0
    /\ hSnap = NoSnap /\ hWrote = FALSE /\ hActive0 = FALSE /\ hFirst = ""

DrawersIdle ==
    /\ dpc = [d \in Drawers |-> "idle"]
    /\ dLeft = [d \in Drawers |-> 0]
    /\ dCards = [d \in Drawers |-> <<>>]
    /\ returned = {} /\ dupReturn = FALSE

\* No deck saved for the room.
DeckIdle == deck = <<>> /\ DrawersIdle

\* SaveDeckToRedis of a created deck (its first MaxDeck cards), some cards
\* of it possibly drawn already.
DeckSaved ==
    /\ deck \in {SubSeq(CreateDeck, 1, n) : n \in 0..MaxDeck}
    /\ DrawersIdle

\* A room as the engine and the seating service may have left it: any set of
\* seated players, no game hash yet or a game in any of the seven phases.
InitStore ==
    /\ seated \in SUBSET Players
    /\ churn = 0
    /\ actions = <<>>
    /\ \/ /\ game = NoGame
          /\ room \in {NoRoom, RoomIn("waiting")}
          /\ player = [p \in Players |-> IF p \in seated THEN ResetFields ELSE NoPlayer]
       \/ \E ph \in PhaseSet :
            /\ game = GameIn(ph)
            /\ room = RoomIn(IF ph = "waiting" THEN "waiting" ELSE "gaming")
            /\ player = [p \in Players |->
                            IF p \notin seated THEN NoPlayer
                            ELSE IF ph = "waiting" THEN ResetFields ELSE InHand(p)]

\* A dealer outside any deck operation.
IdleDealer ==
    [pc |-> "idle", op |-> "", deck |-> <<>>, ids |-> {}, who |-> 0, n |-> 0,
     left |-> 0, cards |-> <<>>, pops |-> 0, cur |-> <<>>, out |-> <<>>, res |-> ""]

\* What a run has seen so far: the deck last pushed, the cards DrawCard
\* handed out since and its last answer, whether a store command failed, and
\* the deck and the board the running call found.
NoHist ==
    [saved |-> <<>>, seq |-> <<>>, failed |-> FALSE, last |-> "",
     deck0 |-> <<>>, board0 |-> <<>>]

DealIdle == dealer = [d \in Dealers |-> IdleDealer] /\ kh = NoHist /\ kOps = 0

PhaseIdle == gPhase = "waiting" /\ gTo = "waiting" /\ gCan = "" /\ gTrail = <<>>

\* A Start caller that has not called yet.
IdleLoop ==
    [pc |-> "idle", todo |-> <<>>, cur |-> 0, count |-> 0, kind |-> "none",
     listed |-> {}, seen |-> {}, bad |-> {}, ctx0 |-> FALSE]

\* NewRoomMonitor: not running, the context not cancelled, no ticker yet.
LoopIdle ==
    /\ isRunning = FALSE /\ ctxDone = FALSE /\ redisClosed = FALSE
    /\ ticker = [on |-> FALSE, fired |-> FALSE] /\ ticks = 0
    /\ loop = [l \in Starters |-> IdleLoop] /\ stopper = "idle"
    /\ rst = [r \in Rooms |-> [count |-> 0, phase |-> ""]]

\* No deck function called yet.
FnIdle ==
    /\ fpc = "idle" /\ fIn = <<>> /\ fArg = <<>> /\ fOut = <<>> /\ fI = 0
    /\ fDeck = <<>>

\* A GameStartHandler.Handle call not yet made.
IdleStart ==
    [pc |-> "idle", arg |-> 0, actual |-> 0, pipe |-> <<>>, res |-> "", logged |-> FALSE,
     room0 |-> NoRoom, game0 |-> NoGame, log0 |-> 0]

\* A checkRoom of ForceCheck / CheckSpecificRoom not yet called.
IdleCheck ==
    [pc |-> "idle", count |-> 0, phase |-> "", kind |-> "none", pipe |-> <<>>, res |-> ""]

ExtIdle == sh = IdleStart /\ fc = IdleCheck /\ cleaned = FALSE

Init == InitStore /\ MonIdle /\ StopIdle /\ DeckIdle /\ DealIdle /\ PhaseIdle /\ LoopIdle /\ FnIdle /\ ExtIdle

\* ---------------------------------------------- seating (external actors)
SitDown(p) ==
    /\ p \notin seated
    /\ churn < MaxChurn
    /\ seated' = seated \cup {p}
    /\ player' = [player EXCEPT ![p] = ResetFields]
    /\ churn' = churn + 1
    /\ UNCHANGED <<room, game, actions>>

StandUp(p) ==
    /\ p \in seated
    /\ churn < MaxChurn
    /\ seated' = seated \ {p}
    /\ player' = [player EXCEPT ![p] = NoPlayer]
    /\ churn' = churn + 1
    /\ UNCHANGED <<room, game, actions>>

Seating ==
    /\ \E p \in Players : SitDown(p) \/ StandUp(p)
    /\ UNCHANGED <<monVars, stopVars, deckVars, dealVars, phaseVars, loopVars, fnVars, extVars>>

\* ------------------------------------------------ monitor: checkRoom
\* GetPlayersCount: SCARD of the players set.
MonGetPlayersCount ==
    /\ pc = "idle"
    /\ mCount' = Cardinality(seated)
    /\ pc' = "game"
    /\ hRoom' = room /\ hGame' = game /\ hLog' = Len(actions)
    /\ UNCHANGED <<mPhase, mKind, mPipe, mResult, mLogged>>
    /\ UNCHANGED <<storeVars, stopVars, deckVars, dealVars, phaseVars, loopVars, fnVars, extVars>>

MonGetPlayersCountErr ==
    /\ pc = "idle"
    /\ pc' = "done"
    /\ mResult' = "err_count"
    /\ hRoom' = room /\ hGame' = game /\ hLog' = Len(actions)
    /\ UNCHANGED <<mCount, mPhase, mKind, mPipe, mLogged>>
    /\ UNCHANGED <<storeVars, stopVars, deckVars, dealVars, phaseVars, loopVars, fnVars, extVars>>

\* GetGameState (HGETALL), the nil check and the three cases of checkRoom;
\* handleGameStart / handleGameStop queue their commands.
MonGetGameState ==
    /\ pc = "game"
    /\ IF ~game.exists
       THEN /\ pc' = "done"
            /\ mResult' = "absent"
            /\ UNCHANGED <<mPhase, mKind, mPipe>>
       ELSE /\ mPhase' = game.phase
            /\ mKind' = Decide(mCount, game.phase)
            /\ IF mKind' = "none"
               THEN pc' = "done" /\ mResult' = "none" /\ mPipe' = <<>>
               ELSE /\ pc' = "exec"
                    /\ mResult' = ""
                    /\ mPipe' = IF mKind' = "start"
                                THEN StartCmds(NewGameID, NewStartedAt)
                                ELSE StopCmds
    /\ UNCHANGED <<mCount, mLogged, hRoom, hGame, hLog>>
    /\ UNCHANGED <<storeVars, stopVars, deckVars, dealVars, phaseVars, loopVars, fnVars, extVars>>

MonGetGameStateErr ==
    /\ pc = "game"
    /\ pc' = "done"
    /\ mResult' = "err_game"
    /\ UNCHANGED <<mCount, mPhase, mKind, mPipe, mLogged, hRoom, hGame, hLog>>
    /\ UNCHANGED <<storeVars, stopVars, deckVars, dealVars, phaseVars, loopVars, fnVars, extVars>>

\* pipe.Exec: the store applies the next queued command.
MonPipeCmd ==
    /\ pc = "exec"
    /\ mPipe # <<>>
    /\ room' = ApplyCmd(Head(mPipe), room, game)[1]
    /\ game' = ApplyCmd(Head(mPipe), room, game)[2]
    /\ mPipe' = Tail(mPipe)
    /\ UNCHANGED <<pc, mCount, mPhase, mKind, mResult, mLogged, hRoom, hGame, hLog>>
    /\ UNCHANGED <<seated, player, actions, churn, stopVars, deckVars, dealVars, phaseVars, loopVars, fnVars, extVars>>

\* pipe.Exec returns nil: every command was applied.
MonExecOk ==
    /\ pc = "exec"
    /\ mPipe = <<>>
    /\ pc' = "log"
    /\ UNCHANGED <<mCount, mPhase, mKind, mPipe, mResult, mLogged, hRoom, hGame, hLog>>
    /\ UNCHANGED <<storeVars, stopVars, deckVars, dealVars, phaseVars, loopVars, fnVars, extVars>>

\* pipe.Exec returns an error: the commands not yet applied are lost.
MonExecErr ==
    /\ pc = "exec"
    /\ mPipe' = <<>>
    /\ pc' = "done"
    /\ mResult' = IF mKind = "start" THEN "err_start" ELSE "err_stop"
    /\ UNCHANGED <<mCount, mPhase, mKind, mLogged, hRoom, hGame, hLog>>
    /\ UNCHANGED <<storeVars, stopVars, deckVars, dealVars, phaseVars, loopVars, fnVars, extVars>>

MonEntry ==
    IF mKind = "start"
    THEN GameStartedEntry(NewGameID, mCount)
    ELSE GameStoppedEntry(mPhase, "insufficient_players")

\* LogAction: RPUSH of the entry; the monitor ignores its error.
MonLogAction ==
    /\ pc = "log"
    /\ actions' = Append(actions, MonEntry)
    /\ mLogged' = TRUE
    /\ pc' = "done"
    /\ mResult' = IF mKind = "start" THEN "started" ELSE "stopped"
    /\ UNCHANGED <<mCount, mPhase, mKind, mPipe, hRoom, hGame, hLog>>
    /\ UNCHANGED <<seated, player, room, game, churn, stopVars, deckVars, dealVars, phaseVars, loopVars, fnVars, extVars>>

\* A log failure that makes handleGameStart / handleGameStop fail.
MonLogActionErrFails ==
    /\ pc = "log"
    /\ pc' = "done"
    /\ mResult' = "err_log"
    /\ UNCHANGED <<mCount, mPhase, mKind, mPipe, mLogged, hRoom, hGame, hLog>>
    /\ UNCHANGED <<storeVars, stopVars, deckVars, dealVars, phaseVars, loopVars, fnVars, extVars>>

MonLogActionErr ==
    /\ pc = "log"
    /\ pc' = "done"
    /\ mResult' = IF mKind = "start" THEN "started" ELSE "stopped"
    /\ UNCHANGED <<mCount, mPhase, mKind, mPipe, mLogged, hRoom, hGame, hLog>>
    /\ UNCHANGED <<storeVars, stopVars, deckVars, dealVars, phaseVars, loopVars, fnVars, extVars>>

\* checkRoom returns; the next tick starts from nothing.
MonReturn ==
    /\ pc = "done"
    /\ pc' = "idle"
    /\ mCount' = 0 /\ mPhase' = "" /\ mKind' = "none" /\ mPipe' = <<>>
    /\ mResult' = "" /\ mLogged' = FALSE
    /\ hRoom' = NoRoom /\ hGame' = NoGame /\ hLog' = 0
    /\ UNCHANGED <<storeVars, stopVars, deckVars, dealVars, phaseVars, loopVars, fnVars, extVars>>

MonitorOk ==
    \/ MonGetPlayersCount
    \/ MonGetGameState
    \/ MonPipeCmd
    \/ MonExecOk
    \/ MonLogAction
    \/ MonReturn

MonitorErr ==
    \/ MonGetPlayersCountErr
    \/ MonGetGameStateErr
    \/ MonExecErr
    \/ MonLogActionErr

Next == Seating \/ MonitorOk \/ MonitorErr

Spec == Init /\ [][Next]_vars

\* The store stays available and the ticker keeps firing.
NextAvail == Seating \/ MonitorOk

LiveSpec == Init /\ [][NextAvail]_vars /\ WF_vars(MonitorOk)

\* ------------------------------------------- GameStopHandler.Handle
\* Game.IsActive answering true in every phase (the guard of Handle gone).
IsActiveAlways(phase) == TRUE

\* Game.IsActive: a hand is being played.
IsActive(phase) == phase # "waiting" /\ phase # "finished"

\* IsGameActive: GetGameState, nil -> false, else game.IsActive().
IsGameActive(g) == g.exists /\ IsActive(g.phase)

\* The commands Handle queues, in order.
HandleCmds ==
    << Cmd("room", "status", "waiting"),
       Cmd("game", "phase", "waiting"),
       Cmd("game", "game_id", ""),
       Cmd("game", "started_at", ""),
       Cmd("game", "pot", 0),
       Cmd("game", "current_bet", 0),
       Cmd("game", "current_player_position", ""),
       Cmd("game", "community_cards", <<>>) >>

Reasons == {"insufficient_players", "force_stop: admin"}

\* previousPhase as the callers of Handle (StopIfNeeded, ForceStop) take it.
PreviousPhase(g) == IF g.exists THEN g.phase ELSE "waiting"

\* A caller enters Handle(clubID, roomID, previousPhase, reason).
HandleCall(reason) ==
    /\ hpc = "idle"
    /\ hCalls < MaxCalls
    /\ hpc' = "exists"
    /\ hPrev' = PreviousPhase(game) /\ hReason' = reason
    /\ hCalls' = hCalls + 1
    /\ hResult' = "" /\ hLogged' = FALSE /\ hWrote' = FALSE
    /\ hSnap' = [room |-> room, game |-> game, log |-> Len(actions)]
    /\ hActive0' = IF hCalls = 0 THEN room.exists /\ IsGameActive(game) ELSE hActive0
    /\ UNCHANGED <<hPipe, hIds, hFirst>>
    /\ UNCHANGED <<storeVars, monVars, deckVars, dealVars, phaseVars, loopVars, fnVars, extVars>>

\* Check 1: RoomExists (EXISTS of the room info key).
HandleRoomExists ==
    /\ hpc = "exists"
    /\ IF room.exists
       THEN hpc' = "active" /\ hResult' = hResult
       ELSE hpc' = "done" /\ hResult' = "err_no_room"
    /\ UNCHANGED <<hPrev, hReason, hPipe, hIds, hLogged, hCalls, hSnap, hWrote,
                   hActive0, hFirst>>
    /\ UNCHANGED <<storeVars, monVars, deckVars, dealVars, phaseVars, loopVars, fnVars, extVars>>

HandleRoomExistsErr ==
    /\ hpc = "exists"
    /\ hpc' = "done" /\ hResult' = "err_read"
    /\ UNCHANGED <<hPrev, hReason, hPipe, hIds, hLogged, hCalls, hSnap, hWrote,
                   hActive0, hFirst>>
    /\ UNCHANGED <<storeVars, monVars, deckVars, dealVars, phaseVars, loopVars, fnVars, extVars>>

\* Check 2: IsGameActive; a game that is not active is not an error.
HandleIsGameActive ==
    /\ hpc = "active"
    /\ IF IsGameActive(game)
       THEN hpc' = "exec" /\ hPipe' = HandleCmds /\ hResult' = hResult
       ELSE hpc' = "done" /\ hPipe' = <<>> /\ hResult' = "nil"
    /\ UNCHANGED <<hPrev, hReason, hIds, hLogged, hCalls, hSnap, hWrote, hActive0, hFirst>>
    /\ UNCHANGED <<storeVars, monVars, deckVars, dealVars, phaseVars, loopVars, fnVars, extVars>>

HandleIsGameActiveErr ==
    /\ hpc = "active"
    /\ hpc' = "done" /\ hResult' = "err_read"
    /\ UNCHANGED <<hPrev, hReason, hPipe, hIds, hLogged, hCalls, hSnap, hWrote,
                   hActive0, hFirst>>
    /\ UNCHANGED <<storeVars, monVars, deckVars, dealVars, phaseVars, loopVars, fnVars, extVars>>

\* pipe.Exec: the store applies the next queued command.
HandlePipeCmd ==
    /\ hpc = "exec"
    /\ hPipe # <<>>
    /\ room' = ApplyCmd(Head(hPipe), room, game)[1]
    /\ game' = ApplyCmd(Head(hPipe), room, game)[2]
    /\ hPipe' = Tail(hPipe)
    /\ hWrote' = TRUE
    /\ UNCHANGED <<hpc, hPrev, hReason, hIds, hResult, hLogged, hCalls, hSnap,
                   hActive0, hFirst>>
    /\ UNCHANGED <<seated, player, actions, churn, monVars, deckVars, dealVars, phaseVars, loopVars, fnVars, extVars>>

HandleExecOk ==
    /\ hpc = "exec"
    /\ hPipe = <<>>
    /\ hpc' = "ids"
    /\ UNCHANGED <<hPrev, hReason, hPipe, hIds, hResult, hLogged, hCalls, hSnap, hWrote,
                   hActive0, hFirst>>
    /\ UNCHANGED <<storeVars, monVars, deckVars, dealVars, phaseVars, loopVars, fnVars, extVars>>

\* pipe.Exec returns an error: the commands not yet applied are lost.
HandleExecErr ==
    /\ hpc = "exec"
    /\ hPipe' = <<>>
    /\ hpc' = "done" /\ hResult' = "err_exec"
    /\ UNCHANGED <<hPrev, hReason, hIds, hLogged, hCalls, hSnap, hWrote, hActive0, hFirst>>
    /\ UNCHANGED <<storeVars, monVars, deckVars, dealVars, phaseVars, loopVars, fnVars, extVars>>

\* GetPlayerIDs: SMEMBERS of the players set.
HandleGetPlayerIDs ==
    /\ hpc = "ids"
    /\ hIds' = seated
    /\ hpc' = "reset"
    /\ UNCHANGED <<hPrev, hReason, hPipe, hResult, hLogged, hCalls, hSnap, hWrote,
                   hActive0, hFirst>>
    /\ UNCHANGED <<storeVars, monVars, deckVars, dealVars, phaseVars, loopVars, fnVars, extVars>>

\* GetPlayerIDs fails: a warning, no player is reset.
HandleGetPlayerIDsErr ==
    /\ hpc = "ids"
    /\ hIds' = {}
    /\ hpc' = "log"
    /\ UNCHANGED <<hPrev, hReason, hPipe, hResult, hLogged, hCalls, hSnap, hWrote,
                   hActive0, hFirst>>
    /\ UNCHANGED <<storeVars, monVars, deckVars, dealVars, phaseVars, loopVars, fnVars, extVars>>

\* resetPlayerState: HMSET of the seven fields (creating the hash if absent).
HandleResetPlayer(p) ==
    /\ hpc = "reset"
    /\ p \in hIds
    /\ player' = [player EXCEPT ![p] = ResetFields]
    /\ hIds' = hIds \ {p}
    /\ hWrote' = TRUE
    /\ UNCHANGED <<hpc, hPrev, hReason, hPipe, hResult, hLogged, hCalls, hSnap,
                   hActive0, hFirst>>
    /\ UNCHANGED <<seated, room, game, actions, churn, monVars, deckVars, dealVars, phaseVars, loopVars, fnVars, extVars>>

\* A failed reset that ends the loop and makes Handle fail.
HandleResetPlayerErrAborts(p) ==
    /\ hpc = "reset"
    /\ p \in hIds
    /\ hIds' = hIds \ {p}
    /\ hpc' = "done" /\ hResult' = "err_reset"
    /\ UNCHANGED <<hPrev, hReason, hPipe, hLogged, hCalls, hSnap, hWrote,
                   hActive0, hFirst>>
    /\ UNCHANGED <<storeVars, monVars, deckVars, dealVars, phaseVars, loopVars, fnVars, extVars>>

\* resetPlayerState fails: a warning, the loop goes on.
HandleResetPlayerErr(p) ==
    /\ hpc = "reset"
    /\ p \in hIds
    /\ hIds' = hIds \ {p}
    /\ UNCHANGED <<hpc, hPrev, hReason, hPipe, hResult, hLogged, hCalls, hSnap, hWrote,
                   hActive0, hFirst>>
    /\ UNCHANGED <<storeVars, monVars, deckVars, dealVars, phaseVars, loopVars, fnVars, extVars>>

\* The loop over playerIDs ends.
HandleResetDone ==
    /\ hpc = "reset"
    /\ hIds = {}
    /\ hpc' = "log"
    /\ UNCHANGED <<hPrev, hReason, hPipe, hIds, hResult, hLogged, hCalls, hSnap, hWrote,
                   hActive0, hFirst>>
    /\ UNCHANGED <<storeVars, monVars, deckVars, dealVars, phaseVars, loopVars, fnVars, extVars>>

\* LogGameStopped: RPUSH of the entry; Handle returns nil.
HandleLogAction ==
    /\ hpc = "log"
    /\ actions' = Append(actions, GameStoppedEntry(hPrev, hReason))
    /\ hLogged' = TRUE
    /\ hWrote' = TRUE
    /\ hpc' = "done" /\ hResult' = "nil"
    /\ UNCHANGED <<hPrev, hReason, hPipe, hIds, hCalls, hSnap, hActive0, hFirst>>
    /\ UNCHANGED <<seated, player, room, game, churn, monVars, deckVars, dealVars, phaseVars, loopVars, fnVars, extVars>>

\* LogGameStopped fails: a warning; Handle returns nil.
HandleLogActionErr ==
    /\ hpc = "log"
    /\ hpc' = "done" /\ hResult' = "nil"
    /\ UNCHANGED <<hPrev, hReason, hPipe, hIds, hLogged, hCalls, hSnap, hWrote,
                   hActive0, hFirst>>
    /\ UNCHANGED <<storeVars, monVars, deckVars, dealVars, phaseVars, loopVars, fnVars, extVars>>

\* Handle returns to its caller.
HandleReturn ==
    /\ hpc = "done"
    /\ hpc' = "idle"
    /\ hFirst' = IF hCalls = 1
                 THEN (IF hResult = "nil" /\ hLogged THEN "nil_logged" ELSE hResult)
                 ELSE hFirst
    /\ UNCHANGED <<hPrev, hReason, hPipe, hIds, hResult, hLogged, hCalls, hSnap, hWrote,
                   hActive0>>
    /\ UNCHANGED <<storeVars, monVars, deckVars, dealVars, phaseVars, loopVars, fnVars, extVars>>

HandlerOk ==
    \/ \E reason \in Reasons : HandleCall(reason)
    \/ HandleRoomExists
    \/ HandleIsGameActive
    \/ HandlePipeCmd
    \/ HandleExecOk
    \/ HandleGetPlayerIDs
    \/ \E p \in Players : HandleResetPlayer(p)
    \/ HandleResetDone
    \/ HandleLogAction
    \/ HandleReturn

HandlerErr ==
    \/ HandleRoomExistsErr
    \/ HandleIsGameActiveErr
    \/ HandleExecErr
    \/ HandleGetPlayerIDsErr
    \/ \E p \in Players : HandleResetPlayerErr(p)
    \/ HandleLogActionErr

HandlerNext == Seating \/ HandlerOk \/ HandlerErr

HandlerSpec == Init /\ [][HandlerNext]_vars

\* ------------------------------------------- GameStartHandler.Handle
\* The minimum Handle compares the count with.
MinPlayersHandle == 2

\* gameID: "game_" + club + "_" + room + "_" + unix time.
HandleGameID == "game_" \o "c1" \o "_" \o "r1" \o "_" \o "1136214245"

StartFrame ==
    UNCHANGED <<monVars, stopVars, deckVars, dealVars, phaseVars, loopVars, fnVars,
                fc, cleaned>>

\* A caller enters Handle(clubID, roomID, playersCount).
StartHandle(playersCount) ==
    /\ sh.pc = "idle"
    /\ sh' = [IdleStart EXCEPT !.pc = "exists", !.arg = playersCount,
                               !.room0 = room, !.game0 = game, !.log0 = Len(actions)]
    /\ UNCHANGED storeVars
    /\ StartFrame

\* Check 1: RoomExists.
StartRoomExists ==
    /\ sh.pc = "exists"
    /\ sh' = IF room.exists
             THEN [sh EXCEPT !.pc = "active"]
             ELSE [sh EXCEPT !.pc = "done", !.res = "err_no_room"]
    /\ UNCHANGED storeVars
    /\ StartFrame

StartRoomExistsErr ==
    /\ sh.pc = "exists"
    /\ sh' = [sh EXCEPT !.pc = "done", !.res = "err_read"]
    /\ UNCHANGED storeVars
    /\ StartFrame

\* Check 2: IsGameActive; a running game is a warning and nil.
StartIsGameActive ==
    /\ sh.pc = "active"
    /\ sh' = IF IsGameActive(game)
             THEN [sh EXCEPT !.pc = "done", !.res = "nil_active"]
             ELSE [sh EXCEPT !.pc = "count"]
    /\ UNCHANGED storeVars
    /\ StartFrame

StartIsGameActiveErr ==
    /\ sh.pc = "active"
    /\ sh' = [sh EXCEPT !.pc = "done", !.res = "err_read"]
    /\ UNCHANGED storeVars
    /\ StartFrame

\* The count read and the pipeline queued whatever the count is.
StartGetPlayersCountNoMin ==
    /\ sh.pc = "count"
    /\ sh' = [sh EXCEPT !.pc = "exec", !.actual = Cardinality(seated),
                        !.pipe = StartCmds(HandleGameID, NewStartedAt)]
    /\ UNCHANGED storeVars
    /\ StartFrame

\* Check 3: GetPlayersCount against the minimum; then the pipeline is queued.
StartGetPlayersCount ==
    /\ sh.pc = "count"
    /\ sh' = IF Cardinality(seated) < MinPlayersHandle
             THEN [sh EXCEPT !.pc = "done", !.res = "err_players",
                             !.actual = Cardinality(seated)]
             ELSE [sh EXCEPT !.pc = "exec", !.actual = Cardinality(seated),
                             !.pipe = StartCmds(HandleGameID, NewStartedAt)]
    /\ UNCHANGED storeVars
    /\ StartFrame

StartGetPlayersCountErr ==
    /\ sh.pc = "count"
    /\ sh' = [sh EXCEPT !.pc = "done", !.res = "err_read"]
    /\ UNCHANGED storeVars
    /\ StartFrame

\* pipe.Exec: the store applies the next queued command.
StartPipeCmd ==
    /\ sh.pc = "exec"
    /\ sh.pipe # <<>>
    /\ room' = ApplyCmd(Head(sh.pipe), room, game)[1]
    /\ game' = ApplyCmd(Head(sh.pipe), room, game)[2]
    /\ sh' = [sh EXCEPT !.pipe = Tail(sh.pipe)]
    /\ UNCHANGED <<seated, player, actions, churn>>
    /\ StartFrame

StartExecOk ==
    /\ sh.pc = "exec"
    /\ sh.pipe = <<>>
    /\ sh' = [sh EXCEPT !.pc = "log"]
    /\ UNCHANGED storeVars
    /\ StartFrame

\* pipe.Exec returns an error: the commands not yet applied are lost.
StartExecErr ==
    /\ sh.pc = "exec"
    /\ sh' = [sh EXCEPT !.pc = "done", !.pipe = <<>>, !.res = "err_exec"]
    /\ UNCHANGED storeVars
    /\ StartFrame

\* LogGameStarted with the caller's playersCount; Handle returns nil.
StartLogAction ==
    /\ sh.pc = "log"
    /\ actions' = Append(actions, GameStartedEntry(HandleGameID, sh.arg))
    /\ sh' = [sh EXCEPT !.pc = "done", !.res = "nil", !.logged = TRUE]
    /\ UNCHANGED <<seated, player, room, game, churn>>
    /\ StartFrame

\* LogGameStarted fails: a warning; Handle returns nil.
StartLogActionErr ==
    /\ sh.pc = "log"
    /\ sh' = [sh EXCEPT !.pc = "done", !.res = "nil"]
    /\ UNCHANGED storeVars
    /\ StartFrame

\* Handle returns to its caller.
StartReturn ==
    /\ sh.pc = "done"
    /\ sh' = IdleStart
    /\ UNCHANGED storeVars
    /\ StartFrame

StartOk ==
    \/ \E playersCount \in 0..NumPlayers : StartHandle(playersCount)
    \/ StartRoomExists
    \/ StartIsGameActive
    \/ StartGetPlayersCount
    \/ StartPipeCmd
    \/ StartExecOk
    \/ StartLogAction
    \/ StartReturn

StartErr ==
    \/ StartRoomExistsErr
    \/ StartIsGameActiveErr
    \/ StartGetPlayersCountErr
    \/ StartExecErr
    \/ StartLogActionErr

\* Handle called again and again while players sit down and stand up.
StartNext == Seating \/ StartOk \/ StartErr

StartSpec == Init /\ [][StartNext]_vars

\* ------------------------------------- ForceCheck / CheckSpecificRoom
\* checkRoom run by the goroutine that called ForceCheck or
\* CheckSpecificRoom, on the room the loop's tick works on.
ForceFrame ==
    UNCHANGED <<monVars, stopVars, deckVars, dealVars, phaseVars, loopVars, fnVars,
                sh, cleaned>>

\* GetPlayersCount: SCARD of the players set.
ForceGetPlayersCount ==
    /\ fc.pc = "idle"
    /\ fc' = [IdleCheck EXCEPT !.pc = "game", !.count = Cardinality(seated)]
    /\ UNCHANGED storeVars
    /\ ForceFrame

\* GetGameState, the nil check and the three cases of checkRoom.
ForceGetGameState ==
    /\ fc.pc = "game"
    /\ fc' = IF ~game.exists
             THEN [fc EXCEPT !.pc = "done", !.res = "absent"]
             ELSE LET kind == Decide(fc.count, game.phase) IN
                  IF kind = "none"
                  THEN [fc EXCEPT !.pc = "done", !.phase = game.phase, !.res = "none"]
                  ELSE [fc EXCEPT !.pc = "exec", !.phase = game.phase, !.kind = kind,
                                  !.pipe = IF kind = "start"
                                           THEN StartCmds(NewGameID, NewStartedAt)
                                           ELSE StopCmds]
    /\ UNCHANGED storeVars
    /\ ForceFrame

\* pipe.Exec: the store applies the next queued command.
ForcePipeCmd ==
    /\ fc.pc = "exec"
    /\ fc.pipe # <<>>
    /\ room' = ApplyCmd(Head(fc.pipe), room, game)[1]
    /\ game' = ApplyCmd(Head(fc.pipe), room, game)[2]
    /\ fc' = [fc EXCEPT !.pipe = Tail(fc.pipe)]
    /\ UNCHANGED <<seated, player, actions, churn>>
    /\ ForceFrame

ForceExecOk ==
    /\ fc.pc = "exec"
    /\ fc.pipe = <<>>
    /\ fc' = [fc EXCEPT !.pc = "log"]
    /\ UNCHANGED storeVars
    /\ ForceFrame

\* LogGameStarted / LogGameStopped.
ForceLogAction ==
    /\ fc.pc = "log"
    /\ actions' = Append(actions,
                         IF fc.kind = "start"
                         THEN GameStartedEntry(NewGameID, fc.count)
                         ELSE GameStoppedEntry(fc.phase, "insufficient_players"))
    /\ fc' = [fc EXCEPT !.pc = "done",
                        !.res = IF fc.kind = "start" THEN "started" ELSE "stopped"]
    /\ UNCHANGED <<seated, player, room, game, churn>>
    /\ ForceFrame

\* checkRoom returns to ForceCheck / CheckSpecificRoom.
ForceReturn ==
    /\ fc.pc = "done"
    /\ fc' = IdleCheck
    /\ UNCHANGED storeVars
    /\ ForceFrame

ForceOk ==
    \/ ForceGetPlayersCount
    \/ ForceGetGameState
    \/ ForcePipeCmd
    \/ ForceExecOk
    \/ ForceLogAction
    \/ ForceReturn

\* The loop's tick and a forced check on one room, the store never failing
\* and nobody sitting down or standing up.
ForceNext == MonitorOk \/ ForceOk

ForceSpec == Init /\ [][ForceNext]_vars

\* ------------------------------------------------ DeckManager draws
Range(seq) == {seq[i] : i \in 1..Len(seq)}

\* A draw that reads the last card and leaves it in the list.
RPopKeep(list) == [card |-> list[Len(list)], rest |-> list]

\* A pop at the head of the list.
LPop(list) == [card |-> list[1], rest |-> Tail(list)]

\* RPOP on a list that is not empty: removes and returns its last element.
RPop(list) == [card |-> list[Len(list)], rest |-> SubSeq(list, 1, Len(list) - 1)]

\* A card handed back to a caller that some caller already holds.
HandedTwice(cards) ==
    \/ Range(cards) \cap returned # {}
    \/ Cardinality(Range(cards)) < Len(cards)

\* A caller enters DrawCards(clubID, roomID, count).
DrawCardsCall(d, count) ==
    /\ dpc[d] = "idle"
    /\ dpc' = [dpc EXCEPT ![d] = "loop"]
    /\ dLeft' = [dLeft EXCEPT ![d] = count]
    /\ dCards' = [dCards EXCEPT ![d] = <<>>]
    /\ UNCHANGED <<deck, returned, dupReturn>>
    /\ UNCHANGED <<storeVars, monVars, stopVars, dealVars, phaseVars, loopVars, fnVars, extVars>>

\* One iteration of the loop: DrawCard; an empty deck ends the loop.
DrawCardsStep(d) ==
    /\ dpc[d] = "loop"
    /\ IF deck = <<>>
       THEN /\ dpc' = [dpc EXCEPT ![d] = "ret"]
            /\ UNCHANGED <<deck, dLeft, dCards>>
       ELSE /\ deck' = RPop(deck).rest
            /\ dCards' = [dCards EXCEPT ![d] = Append(@, RPop(deck).card)]
            /\ dLeft' = [dLeft EXCEPT ![d] = @ - 1]
            /\ dpc' = [dpc EXCEPT ![d] = IF dLeft[d] = 1 THEN "ret" ELSE "loop"]
    /\ UNCHANGED <<returned, dupReturn>>
    /\ UNCHANGED <<storeVars, monVars, stopVars, dealVars, phaseVars, loopVars, fnVars, extVars>>

\* DrawCard fails inside the loop: DrawCards returns nil and the error; the
\* store may or may not have popped the card whose reply was lost.
DrawCardsStepErr(d) ==
    /\ dpc[d] = "loop"
    /\ deck' \in {deck} \cup (IF deck = <<>> THEN {} ELSE {RPop(deck).rest})
    /\ dCards' = [dCards EXCEPT ![d] = <<>>]
    /\ dpc' = [dpc EXCEPT ![d] = "ret"]
    /\ UNCHANGED <<dLeft, returned, dupReturn>>
    /\ UNCHANGED <<storeVars, monVars, stopVars, dealVars, phaseVars, loopVars, fnVars, extVars>>

\* DrawCards hands its cards to the caller.
DrawCardsReturn(d) ==
    /\ dpc[d] = "ret"
    /\ returned' = returned \cup Range(dCards[d])
    /\ dupReturn' = (dupReturn \/ HandedTwice(dCards[d]))
    /\ dpc' = [dpc EXCEPT ![d] = "idle"]
    /\ dLeft' = [dLeft EXCEPT ![d] = 0]
    /\ dCards' = [dCards EXCEPT ![d] = <<>>]
    /\ UNCHANGED deck
    /\ UNCHANGED <<storeVars, monVars, stopVars, dealVars, phaseVars, loopVars, fnVars, extVars>>

\* A caller calls DrawCard itself: one RPOP, the card handed back.
DrawCard(d) ==
    /\ dpc[d] = "idle"
    /\ deck # <<>>
    /\ deck' = RPop(deck).rest
    /\ returned' = returned \cup {RPop(deck).card}
    /\ dupReturn' = (dupReturn \/ HandedTwice(<<RPop(deck).card>>))
    /\ UNCHANGED <<dpc, dLeft, dCards>>
    /\ UNCHANGED <<storeVars, monVars, stopVars, dealVars, phaseVars, loopVars, fnVars, extVars>>

\* DrawCard fails: "" and the error; the card may be gone from the list.
DrawCardErr(d) ==
    /\ dpc[d] = "idle"
    /\ deck # <<>>
    /\ deck' = RPop(deck).rest
    /\ UNCHANGED <<dpc, dLeft, dCards, returned, dupReturn>>
    /\ UNCHANGED <<storeVars, monVars, stopVars, dealVars, phaseVars, loopVars, fnVars, extVars>>

DrawOk ==
    \E d \in Drawers :
        \/ \E count \in 1..MaxDraw : DrawCardsCall(d, count)
        \/ DrawCardsStep(d)
        \/ DrawCardsReturn(d)
        \/ DrawCard(d)

DrawErr == \E d \in Drawers : DrawCardsStepErr(d) \/ DrawCardErr(d)

DeckNext == DrawOk \/ DrawErr

\* Draws happen in a hand: every seat taken, the game in pre_flop.
DeckInit ==
    /\ InitStore /\ seated = Players /\ game = GameIn("pre_flop")
    /\ MonIdle /\ StopIdle /\ DeckSaved /\ DealIdle /\ PhaseIdle /\ LoopIdle /\ FnIdle /\ ExtIdle

DeckSpec == DeckInit /\ [][DeckNext]_vars

\* ------------------------------------------------ Game phase methods
\* Phase strings a game hash may hold: NewGameFromRedis takes the field as is.
AnyPhase == PhaseSet \cup {"", "paused"}

\* validTransitions without the showdown -> pre_flop edge.
ValidTransitionsNoRedeal(phase) ==
    CASE phase = "waiting" -> {"pre_flop"}
      [] phase = "pre_flop" -> {"flop", "showdown", "finished"}
      [] phase = "flop" -> {"turn", "showdown", "finished"}
      [] phase = "turn" -> {"river", "showdown", "finished"}
      [] phase = "river" -> {"showdown", "finished"}
      [] phase = "showdown" -> {"finished"}
      [] phase = "finished" -> {"waiting", "pre_flop"}
      [] OTHER -> {}

\* validTransitions[phase]; a phase that is no key of the map allows nothing.
ValidTransitions(phase) ==
    CASE phase = "waiting" -> {"pre_flop"}
      [] phase = "pre_flop" -> {"flop", "showdown", "finished"}
      [] phase = "flop" -> {"turn", "showdown", "finished"}
      [] phase = "turn" -> {"river", "showdown", "finished"}
      [] phase = "river" -> {"showdown", "finished"}
      [] phase = "showdown" -> {"finished", "pre_flop"}
      [] phase = "finished" -> {"waiting", "pre_flop"}
      [] OTHER -> {}

\* Game.CanTransitionTo.
CanTransitionTo(from, to) == to \in ValidTransitions(from)

\* NextPhase going from river straight to finished.
NextPhaseSkipShowdown(phase) ==
    CASE phase = "waiting" -> "pre_flop"
      [] phase = "pre_flop" -> "flop"
      [] phase = "flop" -> "turn"
      [] phase = "turn" -> "river"
      [] phase = "river" -> "finished"
      [] phase = "showdown" -> "finished"
      [] phase = "finished" -> "waiting"
      [] OTHER -> "waiting"

\* Game.NextPhase.
NextPhase(phase) ==
    CASE phase = "waiting" -> "pre_flop"
      [] phase = "pre_flop" -> "flop"
      [] phase = "flop" -> "turn"
      [] phase = "turn" -> "river"
      [] phase = "river" -> "showdown"
      [] phase = "showdown" -> "finished"
      [] phase = "finished" -> "waiting"
      [] OTHER -> "waiting"

\* A game loaded with any phase string, asked about any target phase.
PhaseInit ==
    /\ InitStore /\ seated = {} /\ game = NoGame /\ room = NoRoom
    /\ MonIdle /\ StopIdle /\ DeckIdle /\ DealIdle /\ LoopIdle /\ FnIdle /\ ExtIdle
    /\ gPhase \in AnyPhase /\ gTo \in AnyPhase /\ gCan = "" /\ gTrail = <<gPhase>>

\* g.CanTransitionTo(gTo) is called.
GameCanTransitionTo ==
    /\ gCan = ""
    /\ gCan' = IF CanTransitionTo(gPhase, gTo) THEN "true" ELSE "false"
    /\ UNCHANGED <<gPhase, gTo, gTrail>>
    /\ UNCHANGED <<storeVars, monVars, stopVars, deckVars, dealVars, loopVars, fnVars, extVars>>

\* g.SetPhase(g.NextPhase()): the game advances to its successor phase.
GameNextPhase ==
    /\ Len(gTrail) < MaxWalk
    /\ gPhase' = NextPhase(gPhase)
    /\ gTrail' = Append(gTrail, gPhase')
    /\ gCan' = ""
    /\ UNCHANGED gTo
    /\ UNCHANGED <<storeVars, monVars, stopVars, deckVars, dealVars, loopVars, fnVars, extVars>>

PhaseNext == GameCanTransitionTo \/ GameNextPhase

PhaseSpec == PhaseInit /\ [][PhaseNext]_vars

\* ------------------------------------------------ DeckManager shuffle
\* rng.Intn(n) of the random source with the given seed: a value of 0..n-1.
Intn(seed, n) == (seed * (n - 1)) % n

\* An exchange that loses the card at position i.
SwapCopy(seq, i, j) == [seq EXCEPT ![i] = seq[j]]

\* shuffled[i], shuffled[j] = shuffled[j], shuffled[i]
Swap(seq, i, j) == [seq EXCEPT ![i] = seq[j], ![j] = seq[i]]

\* The Fisher-Yates loop from position i (counted from 1) down to 2.
RECURSIVE ShuffleFrom(_, _, _)
ShuffleFrom(shuffled, i, seed) ==
    IF i <= 1
    THEN shuffled
    ELSE ShuffleFrom(Swap(shuffled, i, Intn(seed, i) + 1), i - 1, seed)

ShuffleDeck(cards, seed) == ShuffleFrom(cards, Len(cards), seed)

CreateAndShuffleDeck(seed) == ShuffleDeck(CreateDeck, seed)

\* ------------------------------------------------ dealers on the deck
\* What a dealer's step leaves alone.
DealerFrame ==
    /\ UNCHANGED <<seated, room, actions, churn>>
    /\ UNCHANGED <<dpc, dLeft, dCards, returned, dupReturn>>
    /\ UNCHANGED <<monVars, stopVars, phaseVars, loopVars, fnVars, extVars>>

SetDealer(d, rec) == dealer' = [dealer EXCEPT ![d] = rec]

\* The call returns an error to its caller.
Failed(d, res) == [dealer[d] EXCEPT !.pc = "ret", !.res = res, !.out = <<>>]

\* RPUSH key v1 .. vn: the values go to the tail of the list, in order.
PushAll(list, cards) == list \o cards

\* A caller enters SaveDeckToRedis with a deck it created and shuffled.
SaveDeckToRedis(d, seed) ==
    /\ dealer[d].pc = "idle"
    /\ SetDealer(d, [IdleDealer EXCEPT !.pc = "del", !.op = "save",
                                       !.deck = CreateAndShuffleDeck(seed)])
    /\ UNCHANGED <<deck, kh, player, game>>
    /\ DealerFrame

\* redis.Del(deckKey)
SaveDel(d) ==
    /\ dealer[d].pc = "del"
    /\ deck' = <<>>
    /\ SetDealer(d, [dealer[d] EXCEPT !.pc = "rpush"])
    /\ UNCHANGED <<kh, player, game>>
    /\ DealerFrame

\* Del fails: the error is returned; the list may be gone already.
SaveDelErr(d) ==
    /\ dealer[d].pc = "del"
    /\ deck' \in {deck, <<>>}
    /\ SetDealer(d, Failed(d, "err_store"))
    /\ kh' = [kh EXCEPT !.failed = TRUE]
    /\ UNCHANGED <<player, game>>
    /\ DealerFrame

\* redis.RPush(deckKey, deck...); SaveDeckToRedis returns nil.
SaveRPush(d) ==
    /\ dealer[d].pc = "rpush"
    /\ deck' = PushAll(deck, dealer[d].deck)
    /\ SetDealer(d, IF dealer[d].op = "save"
                    THEN [dealer[d] EXCEPT !.pc = "ret", !.res = "ok"]
                    ELSE [dealer[d] EXCEPT !.pc = "next"])
    /\ kh' = [kh EXCEPT !.saved = dealer[d].deck, !.seq = <<>>, !.last = ""]
    /\ UNCHANGED <<player, game>>
    /\ DealerFrame

\* RPush fails: the error is returned; the cards may be in the list.
SaveRPushErr(d) ==
    /\ dealer[d].pc = "rpush"
    /\ deck' \in {deck, PushAll(deck, dealer[d].deck)}
    /\ SetDealer(d, Failed(d, "err_store"))
    /\ kh' = [kh EXCEPT !.failed = TRUE]
    /\ UNCHANGED <<player, game>>
    /\ DealerFrame

\* DrawCard called by itself: one RPOP; "redis: nil" becomes "" and no error.
DealerDrawCard(d) ==
    /\ dealer[d].pc = "idle"
    /\ IF deck = <<>>
       THEN /\ kh' = [kh EXCEPT !.last = "empty"]
            /\ UNCHANGED deck
       ELSE /\ deck' = RPop(deck).rest
            /\ kh' = [kh EXCEPT !.seq = Append(@, RPop(deck).card), !.last = "card"]
    /\ UNCHANGED <<dealer, player, game>>
    /\ DealerFrame

\* RPOP fails with another error: "" and the error.
DealerDrawCardErr(d) ==
    /\ dealer[d].pc = "idle"
    /\ deck' \in {deck} \cup (IF deck = <<>> THEN {} ELSE {RPop(deck).rest})
    /\ kh' = [kh EXCEPT !.failed = TRUE, !.last = "err"]
    /\ UNCHANGED <<dealer, player, game>>
    /\ DealerFrame

\* Cards collected newest first.
PrependCard(cards, card) == <<card>> \o cards

\* cards = append(cards, card)
AppendCard(cards, card) == Append(cards, card)

\* The first call's cards only, the board read before dropped.
AllCardsReplace(currentCards, cards) == cards

\* allCards := append(currentCards, cards...)
AllCards(currentCards, cards) == currentCards \o cards

\* DrawCards is over with these cards and a nil error: the plain call
\* returns them, the two dealing methods go on with their length checks.
AfterDraw(d, cards, pops) ==
    LET r == [dealer[d] EXCEPT !.cards = cards, !.pops = pops, !.left = 0] IN
    CASE r.op = "drawN" -> [r EXCEPT !.pc = "ret", !.out = cards, !.res = "ok"]
      [] r.op = "hole" ->
           IF Len(cards) # 2 THEN [r EXCEPT !.pc = "ret", !.res = "err_short"]
           ELSE [r EXCEPT !.pc = "cards"]
      [] OTHER ->
           IF Len(cards) # r.n THEN [r EXCEPT !.pc = "ret", !.res = "err_short"]
           ELSE [r EXCEPT !.pc = "hget"]

\* A caller enters DrawCards(clubID, roomID, count).
DrawCards(d, count) ==
    /\ dealer[d].pc = "idle"
    /\ SetDealer(d, [IdleDealer EXCEPT !.pc = "loop", !.op = "drawN",
                                       !.n = count, !.left = count])
    /\ kh' = [kh EXCEPT !.deck0 = deck, !.board0 = game.community_cards]
    /\ UNCHANGED <<deck, player, game>>
    /\ DealerFrame

\* The loop of DrawCards: it ends when count cards are drawn, and when
\* DrawCard answers "" for an empty deck.
DrawLoop(d) ==
    /\ dealer[d].pc = "loop"
    /\ IF dealer[d].left = 0
       THEN /\ SetDealer(d, AfterDraw(d, dealer[d].cards, dealer[d].pops))
            /\ UNCHANGED deck
       ELSE IF deck = <<>>
       THEN /\ SetDealer(d, AfterDraw(d, dealer[d].cards, dealer[d].pops + 1))
            /\ UNCHANGED deck
       ELSE /\ deck' = RPop(deck).rest
            /\ SetDealer(d, [dealer[d] EXCEPT
                                !.cards = AppendCard(@, RPop(deck).card),
                                !.left = @ - 1, !.pops = @ + 1])
    /\ UNCHANGED <<kh, player, game>>
    /\ DealerFrame

\* DrawCard fails inside the loop: nil and the error go up to the caller.
DrawLoopErr(d) ==
    /\ dealer[d].pc = "loop"
    /\ dealer[d].left > 0
    /\ deck' \in {deck} \cup (IF deck = <<>> THEN {} ELSE {RPop(deck).rest})
    /\ SetDealer(d, [Failed(d, "err_store") EXCEPT !.cards = <<>>])
    /\ kh' = [kh EXCEPT !.failed = TRUE]
    /\ UNCHANGED <<player, game>>
    /\ DealerFrame

\* The caller has the result; the dealer is free again.
DealerReturn(d) ==
    /\ dealer[d].pc = "ret"
    /\ SetDealer(d, IdleDealer)
    /\ UNCHANGED <<deck, kh, player, game>>
    /\ DealerFrame

\* ------------------------------------------------ CardDealer
\* DealCardsToPlayers is called.
DealCardsToPlayers(d) ==
    /\ dealer[d].pc = "idle"
    /\ SetDealer(d, [IdleDealer EXCEPT !.pc = "ids", !.op = "hole"])
    /\ kh' = [kh EXCEPT !.deck0 = deck, !.board0 = game.community_cards]
    /\ UNCHANGED <<deck, player, game>>
    /\ DealerFrame

\* GetPlayerIDs and CreateAndShuffleDeck with no check for an empty room.
DealGetPlayerIDsNoCheck(d, seed) ==
    /\ dealer[d].pc = "ids"
    /\ SetDealer(d, [dealer[d] EXCEPT !.pc = "del", !.ids = seated,
                                      !.deck = CreateAndShuffleDeck(seed)])
    /\ UNCHANGED <<deck, kh, player, game>>
    /\ DealerFrame

\* GetPlayerIDs, the check for an empty room, CreateAndShuffleDeck.
DealGetPlayerIDs(d, seed) ==
    /\ dealer[d].pc = "ids"
    /\ SetDealer(d, IF seated = {}
                    THEN Failed(d, "err_no_players")
                    ELSE [dealer[d] EXCEPT !.pc = "del", !.ids = seated,
                                           !.deck = CreateAndShuffleDeck(seed)])
    /\ UNCHANGED <<deck, kh, player, game>>
    /\ DealerFrame

DealGetPlayerIDsErr(d) ==
    /\ dealer[d].pc = "ids"
    /\ SetDealer(d, Failed(d, "err_store"))
    /\ kh' = [kh EXCEPT !.failed = TRUE]
    /\ UNCHANGED <<deck, player, game>>
    /\ DealerFrame

\* The next player of the range loop (SMEMBERS gives the ids in any
\* order) and the call of DrawCards(clubID, roomID, 2); after the last
\* player the size of the deck is asked for.
DealNextPlayer(d) ==
    /\ dealer[d].pc = "next"
    /\ IF dealer[d].ids = {}
       THEN SetDealer(d, [dealer[d] EXCEPT !.pc = "size"])
       ELSE \E userID \in dealer[d].ids :
               SetDealer(d, [dealer[d] EXCEPT !.pc = "loop", !.who = userID,
                                !.ids = @ \ {userID}, !.n = 2, !.left = 2,
                                !.cards = <<>>, !.pops = 0])
    /\ UNCHANGED <<deck, kh, player, game>>
    /\ DealerFrame

\* savePlayerCards: HSET of the player's "cards" field.
DealSavePlayerCards(d) ==
    /\ dealer[d].pc = "cards"
    /\ player' = [player EXCEPT ![dealer[d].who] =
                     [@ EXCEPT !.exists = TRUE, !.cards = dealer[d].cards]]
    /\ SetDealer(d, [dealer[d] EXCEPT !.pc = "next"])
    /\ UNCHANGED <<deck, kh, game>>
    /\ DealerFrame

DealSavePlayerCardsErr(d) ==
    /\ dealer[d].pc = "cards"
    /\ player' \in {player,
                    [player EXCEPT ![dealer[d].who] =
                        [@ EXCEPT !.exists = TRUE, !.cards = dealer[d].cards]]}
    /\ SetDealer(d, Failed(d, "err_store"))
    /\ kh' = [kh EXCEPT !.failed = TRUE]
    /\ UNCHANGED <<deck, game>>
    /\ DealerFrame

\* GetDeckSize for the log line, its error dropped; return nil.
DealGetDeckSize(d) ==
    /\ dealer[d].pc = "size"
    /\ SetDealer(d, [dealer[d] EXCEPT !.pc = "ret", !.res = "ok"])
    /\ UNCHANGED <<deck, kh, player, game>>
    /\ DealerFrame

\* DealCommunityCards(clubID, roomID, count) is called: DrawCards first.
DealCommunityCards(d, count) ==
    /\ dealer[d].pc = "idle"
    /\ SetDealer(d, [IdleDealer EXCEPT !.pc = "loop", !.op = "comm",
                                       !.n = count, !.left = count])
    /\ kh' = [kh EXCEPT !.deck0 = deck, !.board0 = game.community_cards]
    /\ UNCHANGED <<deck, player, game>>
    /\ DealerFrame

\* getCurrentCommunityCards: HGET; "" and "[]" are the empty list, any
\* other text is the list json.Marshal wrote.
GetCurrentCommunityCards(d) ==
    /\ dealer[d].pc = "hget"
    /\ SetDealer(d, [dealer[d] EXCEPT !.pc = "hset", !.cur = game.community_cards])
    /\ UNCHANGED <<deck, kh, player, game>>
    /\ DealerFrame

GetCurrentCommunityCardsErr(d) ==
    /\ dealer[d].pc = "hget"
    /\ SetDealer(d, Failed(d, "err_store"))
    /\ kh' = [kh EXCEPT !.failed = TRUE]
    /\ UNCHANGED <<deck, player, game>>
    /\ DealerFrame

\* saveCommunityCards: HSET of the whole list; the new cards are returned.
SaveCommunityCards(d) ==
    /\ dealer[d].pc = "hset"
    /\ game' = HSetGame(game, "community_cards", AllCards(dealer[d].cur, dealer[d].cards))
    /\ SetDealer(d, [dealer[d] EXCEPT !.pc = "ret", !.out = dealer[d].cards, !.res = "ok"])
    /\ UNCHANGED <<deck, kh, player>>
    /\ DealerFrame

SaveCommunityCardsErr(d) ==
    /\ dealer[d].pc = "hset"
    /\ game' \in {game,
                  HSetGame(game, "community_cards", AllCards(dealer[d].cur, dealer[d].cards))}
    /\ SetDealer(d, Failed(d, "err_store"))
    /\ kh' = [kh EXCEPT !.failed = TRUE]
    /\ UNCHANGED <<deck, player>>
    /\ DealerFrame

\* ------------------------------------------------ dealer runs
\* A room in a hand whose deck list is empty or holds what the previous
\* hand left over; no dealer at work yet.
DealerInit ==
    /\ InitStore /\ seated = Players /\ game = GameIn("pre_flop")
    /\ MonIdle /\ StopIdle /\ DrawersIdle /\ DealIdle /\ PhaseIdle /\ LoopIdle /\ FnIdle /\ ExtIdle
    /\ deck \in {<<>>, SubSeq(CreateDeck, 1, MaxDeck)}

\* One dealer saves a fresh deck once and then calls DrawCard again and
\* again; at most one store command of the run fails.
DrawAllOk ==
    \/ kh.saved = <<>> /\ \E seed \in Seeds : SaveDeckToRedis(1, seed)
    \/ SaveDel(1)
    \/ SaveRPush(1)
    \/ DealerReturn(1)
    \/ kh.saved # <<>> /\ DealerDrawCard(1)

DrawAllErr ==
    /\ ~kh.failed
    /\ \/ SaveDelErr(1)
       \/ SaveRPushErr(1)
       \/ kh.saved # <<>> /\ DealerDrawCardErr(1)

DrawAllNext == (DrawAllOk \/ DrawAllErr) /\ UNCHANGED kOps

DrawAllSpec == DealerInit /\ [][DrawAllNext]_vars

\* Several dealers save decks and draw single cards, MaxOps calls in all,
\* the store never failing.
SaveCalls ==
    /\ kOps < MaxOps
    /\ kOps' = kOps + 1
    /\ \E d \in Dealers :
          \/ \E seed \in Seeds : SaveDeckToRedis(d, seed)
          \/ DealerDrawCard(d)

SaveSteps ==
    /\ UNCHANGED kOps
    /\ \E d \in Dealers : SaveDel(d) \/ SaveRPush(d) \/ DealerReturn(d)

SaveNext == SaveCalls \/ SaveSteps

SaveSpec == DealerInit /\ [][SaveNext]_vars

\* One dealer in a room with any number of players seated, on a deck of which
\* MaxDeck cards or fewer are left, and on a board with or without a flop.
DealInit ==
    /\ InitStore /\ game \in {GameIn("pre_flop"), GameIn("flop")}
    /\ seated \in {1..k : k \in 0..NumPlayers}
    /\ MonIdle /\ StopIdle /\ DeckSaved /\ DealIdle /\ PhaseIdle /\ LoopIdle /\ FnIdle /\ ExtIdle

\* MaxDeals calls of the dealer's methods.
DealCalls ==
    /\ kOps < MaxDeals
    /\ kOps' = kOps + 1
    /\ \/ \E count \in 0..MaxDraw : DrawCards(1, count)
       \/ DealCardsToPlayers(1)
       \/ \E count \in 1..(MaxDraw + 1) : DealCommunityCards(1, count)

DealSteps ==
    /\ UNCHANGED kOps
    /\ \/ DrawLoop(1)
       \/ \E seed \in Seeds : DealGetPlayerIDs(1, seed)
       \/ SaveDel(1)
       \/ SaveRPush(1)
       \/ DealNextPlayer(1)
       \/ DealSavePlayerCards(1)
       \/ DealGetDeckSize(1)
       \/ GetCurrentCommunityCards(1)
       \/ SaveCommunityCards(1)
       \/ DealerReturn(1)

\* A store command of the running call fails, once in a run.
DealErr ==
    /\ UNCHANGED kOps
    /\ ~kh.failed
    /\ \/ DrawLoopErr(1)
       \/ DealGetPlayerIDsErr(1)
       \/ SaveDelErr(1)
       \/ SaveRPushErr(1)
       \/ DealSavePlayerCardsErr(1)
       \/ GetCurrentCommunityCardsErr(1)
       \/ SaveCommunityCardsErr(1)

DealNext == DealCalls \/ DealSteps \/ DealErr

DealSpec == DealInit /\ [][DealNext]_vars

\* ------------------------------------------------ CardDealer.ClearAllCards
\* ClearAllCards is called.
ClearAllCards(d) ==
    /\ dealer[d].pc = "idle"
    /\ SetDealer(d, [IdleDealer EXCEPT !.pc = "cids", !.op = "clear"])
    /\ kh' = [kh EXCEPT !.deck0 = deck, !.board0 = game.community_cards]
    /\ UNCHANGED <<deck, player, game>>
    /\ DealerFrame

\* GetPlayerIDs: SMEMBERS of the players set.
ClearGetPlayerIDs(d) ==
    /\ dealer[d].pc = "cids"
    /\ SetDealer(d, [dealer[d] EXCEPT !.pc = "cnext", !.ids = seated])
    /\ UNCHANGED <<deck, kh, player, game>>
    /\ DealerFrame

ClearGetPlayerIDsErr(d) ==
    /\ dealer[d].pc = "cids"
    /\ SetDealer(d, Failed(d, "err_store"))
    /\ kh' = [kh EXCEPT !.failed = TRUE]
    /\ UNCHANGED <<deck, player, game>>
    /\ DealerFrame

\* The next player of the range loop; after the last one the board.
ClearNextPlayer(d) ==
    /\ dealer[d].pc = "cnext"
    /\ IF dealer[d].ids = {}
       THEN SetDealer(d, [dealer[d] EXCEPT !.pc = "chset"])
       ELSE \E userID \in dealer[d].ids :
               SetDealer(d, [dealer[d] EXCEPT !.pc = "ccards", !.who = userID,
                                !.ids = @ \ {userID}])
    /\ UNCHANGED <<deck, kh, player, game>>
    /\ DealerFrame

\* savePlayerCards(clubID, roomID, userID, []string{})
ClearSavePlayerCards(d) ==
    /\ dealer[d].pc = "ccards"
    /\ player' = [player EXCEPT ![dealer[d].who] =
                     [@ EXCEPT !.exists = TRUE, !.cards = <<>>]]
    /\ SetDealer(d, [dealer[d] EXCEPT !.pc = "cnext"])
    /\ UNCHANGED <<deck, kh, game>>
    /\ DealerFrame

\* savePlayerCards fails: a warning, the loop goes on.
ClearSavePlayerCardsErr(d) ==
    /\ dealer[d].pc = "ccards"
    /\ player' \in {player,
                    [player EXCEPT ![dealer[d].who] =
                        [@ EXCEPT !.exists = TRUE, !.cards = <<>>]]}
    /\ SetDealer(d, [dealer[d] EXCEPT !.pc = "cnext"])
    /\ kh' = [kh EXCEPT !.failed = TRUE]
    /\ UNCHANGED <<deck, game>>
    /\ DealerFrame

\* saveCommunityCards(clubID, roomID, []string{})
ClearSaveCommunityCards(d) ==
    /\ dealer[d].pc = "chset"
    /\ game' = HSetGame(game, "community_cards", <<>>)
    /\ SetDealer(d, [dealer[d] EXCEPT !.pc = "cdel"])
    /\ UNCHANGED <<deck, kh, player>>
    /\ DealerFrame

\* saveCommunityCards fails: the error is returned.
ClearSaveCommunityCardsErr(d) ==
    /\ dealer[d].pc = "chset"
    /\ game' \in {game, HSetGame(game, "community_cards", <<>>)}
    /\ SetDealer(d, Failed(d, "err_store"))
    /\ kh' = [kh EXCEPT !.failed = TRUE]
    /\ UNCHANGED <<deck, player>>
    /\ DealerFrame

\* redis.Del(deckKey); return nil.
ClearDel(d) ==
    /\ dealer[d].pc = "cdel"
    /\ deck' = <<>>
    /\ SetDealer(d, [dealer[d] EXCEPT !.pc = "ret", !.res = "ok"])
    /\ UNCHANGED <<kh, player, game>>
    /\ DealerFrame

\* Del fails: a warning; return nil.
ClearDelErr(d) ==
    /\ dealer[d].pc = "cdel"
    /\ deck' \in {deck, <<>>}
    /\ SetDealer(d, [dealer[d] EXCEPT !.pc = "ret", !.res = "ok"])
    /\ kh' = [kh EXCEPT !.failed = TRUE]
    /\ UNCHANGED <<player, game>>
    /\ DealerFrame

\* One dealer clears the room at the end of a hand, MaxDeals times.
ClearCalls ==
    /\ kOps < MaxDeals
    /\ kOps' = kOps + 1
    /\ ClearAllCards(1)

ClearSteps ==
    /\ UNCHANGED kOps
    /\ \/ ClearGetPlayerIDs(1)
       \/ ClearNextPlayer(1)
       \/ ClearSavePlayerCards(1)
       \/ ClearSaveCommunityCards(1)
       \/ ClearDel(1)
       \/ DealerReturn(1)

\* A store command of the running call fails, once in a run.
ClearErr ==
    /\ UNCHANGED kOps
    /\ ~kh.failed
    /\ \/ ClearGetPlayerIDsErr(1)
       \/ ClearSavePlayerCardsErr(1)
       \/ ClearSaveCommunityCardsErr(1)
       \/ ClearDelErr(1)

ClearNext == ClearCalls \/ ClearSteps \/ ClearErr

ClearSpec == DealInit /\ [][ClearNext]_vars

\* ------------------------------------------- a dealer beside the monitor
\* A hand on the flop that players have left, a deck saved for it.
BoardInit ==
    /\ InitStore /\ game = GameIn("flop")
    /\ seated \in {1..k : k \in 0..NumPlayers}
    /\ MonIdle /\ StopIdle /\ DeckSaved /\ DealIdle /\ PhaseIdle /\ LoopIdle /\ FnIdle /\ ExtIdle

\* DealCommunityCards called MaxDeals times and its steps.
BoardDeal ==
    \/ /\ kOps < MaxDeals
       /\ kOps' = kOps + 1
       /\ \E count \in 1..MaxDraw : DealCommunityCards(1, count)
    \/ /\ UNCHANGED kOps
       /\ \/ DrawLoop(1)
          \/ GetCurrentCommunityCards(1)
          \/ SaveCommunityCards(1)
          \/ DealerReturn(1)

\* The monitor's tick and the dealer on one room, the store never failing.
BoardNext == MonitorOk \/ BoardDeal

BoardSpec == BoardInit /\ [][BoardNext]_vars

\* ------------------------------------------- GameStateService.CleanupRoom
\* CleanupRoom: one DEL of the room's keys (room info, game state, players
\* set, action list, deck and the others); the player hashes are not in
\* its list.
CleanupRoom ==
    /\ ~cleaned
    /\ room' = NoRoom
    /\ game' = NoGame
    /\ seated' = {}
    /\ actions' = <<>>
    /\ deck' = <<>>
    /\ cleaned' = TRUE
    /\ UNCHANGED <<player, churn, dpc, dLeft, dCards, returned, dupReturn, sh, fc>>
    /\ UNCHANGED <<monVars, stopVars, dealVars, phaseVars, loopVars, fnVars>>

\* The monitor's tick and one cleanup of the room, the store never failing.
CleanNext == MonitorOk \/ CleanupRoom

CleanSpec == Init /\ [][CleanNext]_vars

\* ------------------------------------------------ deck functions
\* Slices a caller may give to ShuffleDeck: up to MaxShuffle cards, the
\* same card possibly more than once.
ShuffleInputs ==
    UNION {[1..n -> {CreateDeck[1], CreateDeck[2], CreateDeck[14]}] : n \in 0..MaxShuffle}

\* shuffled is made by make + copy: it has a backing array of its own.
SharesArray == FALSE

FnInit ==
    /\ InitStore /\ seated = {} /\ game = NoGame /\ room = NoRoom
    /\ MonIdle /\ StopIdle /\ DeckIdle /\ DealIdle /\ PhaseIdle /\ LoopIdle /\ ExtIdle
    /\ fpc = "idle" /\ fIn \in ShuffleInputs /\ fArg = fIn
    /\ fOut = <<>> /\ fI = 0 /\ fDeck = <<>>

FnFrame ==
    UNCHANGED <<storeVars, monVars, stopVars, deckVars, dealVars, phaseVars, loopVars, extVars>>

\* CreateDeck is called and returns its deck.
FnCreateDeck ==
    /\ Len(fDeck) < MaxCreates
    /\ fDeck' = Append(fDeck, CreateDeck)
    /\ UNCHANGED <<fpc, fIn, fArg, fOut, fI>>
    /\ FnFrame

\* ShuffleDeck(deck) is called: the copy is made, i starts at len - 1.
FnShuffleDeck ==
    /\ fpc = "idle"
    /\ fpc' = "loop"
    /\ fOut' = fIn
    /\ fI' = Len(fIn)
    /\ UNCHANGED <<fIn, fArg, fDeck>>
    /\ FnFrame

\* One pass of the loop: rng.Intn(i + 1) gives any position up to i.
FnShuffleStep ==
    /\ fpc = "loop"
    /\ fI > 1
    /\ \E j \in 1..fI : fOut' = Swap(fOut, fI, j)
    /\ fIn' = IF SharesArray THEN fOut' ELSE fIn
    /\ fI' = fI - 1
    /\ UNCHANGED <<fpc, fArg, fDeck>>
    /\ FnFrame

\* The loop is over: shuffled is returned.
FnShuffleReturn ==
    /\ fpc = "loop"
    /\ fI <= 1
    /\ fpc' = "ret"
    /\ UNCHANGED <<fIn, fArg, fOut, fI, fDeck>>
    /\ FnFrame

FnNext == FnCreateDeck \/ FnShuffleDeck \/ FnShuffleStep \/ FnShuffleReturn

FnSpec == FnInit /\ [][FnNext]_vars

\* ------------------------------------------------ RoomMonitor loop
\* What the store holds for a scanned room: its player count and the phase
\* of its game hash.
RoomStates ==
    [count : {MinPlayersToStart - 1, MinPlayersToStart}, phase : {"waiting", "pre_flop"}]

LoopInit ==
    /\ InitStore /\ seated = {} /\ game = NoGame /\ room = NoRoom
    /\ MonIdle /\ StopIdle /\ DeckIdle /\ DealIdle /\ PhaseIdle /\ FnIdle /\ ExtIdle
    /\ isRunning = FALSE /\ ctxDone = FALSE /\ redisClosed = FALSE
    /\ ticker = [on |-> FALSE, fired |-> FALSE] /\ ticks = 0
    /\ loop = [l \in Starters |-> IdleLoop] /\ stopper = "idle"
    /\ rst \in [Rooms -> RoomStates]

LoopFrame ==
    UNCHANGED <<storeVars, monVars, stopVars, deckVars, dealVars, phaseVars, fnVars, extVars>>

SetLoop(l, rec) == loop' = [loop EXCEPT ![l] = rec]

\* The rooms of the club in the order ZRANGE gives them.
RoomList == [i \in 1..NumRooms |-> i]

\* Start: the test of isRunning; a running monitor makes Start return.
StartCheck(l) ==
    /\ loop[l].pc = "idle"
    /\ SetLoop(l, [loop[l] EXCEPT !.pc = IF isRunning THEN "noop" ELSE "set"])
    /\ UNCHANGED <<isRunning, ctxDone, redisClosed, ticker, ticks, stopper, rst>>
    /\ LoopFrame

\* Start: isRunning = true, the new ticker; the first check comes at once.
StartSet(l) ==
    /\ loop[l].pc = "set"
    /\ isRunning' = TRUE
    /\ ticker' = [on |-> TRUE, fired |-> FALSE]
    /\ SetLoop(l, [loop[l] EXCEPT !.pc = "scan"])
    /\ UNCHANGED <<ctxDone, redisClosed, ticks, stopper, rst>>
    /\ LoopFrame

\* The ticker puts a tick in its channel.
TickerFires ==
    /\ ticker.on /\ ~ticker.fired
    /\ ticks < MaxTicks
    /\ ticker' = [ticker EXCEPT !.fired = TRUE]
    /\ ticks' = ticks + 1
    /\ UNCHANGED <<isRunning, ctxDone, redisClosed, loop, stopper, rst>>
    /\ LoopFrame

\* checkAllRooms: the scan finds the club's key and ZRANGE lists its rooms.
CheckAllRooms(l) ==
    /\ loop[l].pc = "scan"
    /\ ~redisClosed
    /\ SetLoop(l, [loop[l] EXCEPT !.pc = "room", !.todo = RoomList,
                      !.listed = Rooms, !.seen = {}, !.bad = {}, !.ctx0 = ctxDone])
    /\ UNCHANGED <<isRunning, ctxDone, redisClosed, ticker, ticks, stopper, rst>>
    /\ LoopFrame

\* The scan or ZRANGE fails: logged, no room is listed in this tick.
CheckAllRoomsErr(l) ==
    /\ loop[l].pc = "scan"
    /\ SetLoop(l, [loop[l] EXCEPT !.pc = "room", !.todo = <<>>,
                      !.listed = {}, !.seen = {}, !.bad = {}, !.ctx0 = ctxDone])
    /\ UNCHANGED <<isRunning, ctxDone, redisClosed, ticker, ticks, stopper, rst>>
    /\ LoopFrame

\* for _, roomID := range roomIDs: checkRoom of the next room, or the end
\* of checkAllRooms and back to the select.
NextRoom(l) ==
    /\ loop[l].pc = "room"
    /\ SetLoop(l, IF loop[l].todo = <<>>
                  THEN [loop[l] EXCEPT !.pc = "wait"]
                  ELSE [loop[l] EXCEPT !.pc = "count", !.cur = Head(loop[l].todo),
                           !.todo = Tail(loop[l].todo),
                           !.seen = @ \cup {Head(loop[l].todo)}])
    /\ UNCHANGED <<isRunning, ctxDone, redisClosed, ticker, ticks, stopper, rst>>
    /\ LoopFrame

\* checkRoom: GetPlayersCount.
CheckRoomCount(l) ==
    /\ loop[l].pc = "count"
    /\ ~redisClosed
    /\ SetLoop(l, [loop[l] EXCEPT !.pc = "game", !.count = rst[loop[l].cur].count])
    /\ UNCHANGED <<isRunning, ctxDone, redisClosed, ticker, ticks, stopper, rst>>
    /\ LoopFrame

\* A failed count that ends the whole scan.
CheckRoomCountErrAborts(l) ==
    /\ loop[l].pc = "count"
    /\ SetLoop(l, [loop[l] EXCEPT !.pc = "room", !.todo = <<>>, !.bad = @ \cup {loop[l].cur}])
    /\ UNCHANGED <<isRunning, ctxDone, redisClosed, ticker, ticks, stopper, rst>>
    /\ LoopFrame

\* GetPlayersCount fails: logged, checkRoom returns.
CheckRoomCountErr(l) ==
    /\ loop[l].pc = "count"
    /\ SetLoop(l, [loop[l] EXCEPT !.pc = "room", !.bad = @ \cup {loop[l].cur}])
    /\ UNCHANGED <<isRunning, ctxDone, redisClosed, ticker, ticks, stopper, rst>>
    /\ LoopFrame

\* checkRoom: GetGameState and the three cases.
CheckRoomGame(l) ==
    /\ loop[l].pc = "game"
    /\ ~redisClosed
    /\ LET kind == Decide(loop[l].count, rst[loop[l].cur].phase) IN
          SetLoop(l, [loop[l] EXCEPT !.kind = kind,
                         !.pc = IF kind = "none" THEN "room" ELSE "exec"])
    /\ UNCHANGED <<isRunning, ctxDone, redisClosed, ticker, ticks, stopper, rst>>
    /\ LoopFrame

CheckRoomGameErr(l) ==
    /\ loop[l].pc = "game"
    /\ SetLoop(l, [loop[l] EXCEPT !.pc = "room", !.bad = @ \cup {loop[l].cur}])
    /\ UNCHANGED <<isRunning, ctxDone, redisClosed, ticker, ticks, stopper, rst>>
    /\ LoopFrame

\* The phase the transition writes.
Written(l) ==
    [rst EXCEPT ![loop[l].cur].phase =
        IF loop[l].kind = "start" THEN "pre_flop" ELSE "waiting"]

\* handleGameStart / handleGameStop: pipe.Exec.
CheckRoomExec(l) ==
    /\ loop[l].pc = "exec"
    /\ ~redisClosed
    /\ rst' = Written(l)
    /\ SetLoop(l, [loop[l] EXCEPT !.pc = "log"])
    /\ UNCHANGED <<isRunning, ctxDone, redisClosed, ticker, ticks, stopper>>
    /\ LoopFrame

\* pipe.Exec fails: logged, checkRoom returns; on an open connection the
\* write may have reached the store.
CheckRoomExecErr(l) ==
    /\ loop[l].pc = "exec"
    /\ rst' \in {rst} \cup (IF redisClosed THEN {} ELSE {Written(l)})
    /\ SetLoop(l, [loop[l] EXCEPT !.pc = "room", !.bad = @ \cup {loop[l].cur}])
    /\ UNCHANGED <<isRunning, ctxDone, redisClosed, ticker, ticks, stopper>>
    /\ LoopFrame

\* LogAction, its error dropped; checkRoom returns.
CheckRoomLog(l) ==
    /\ loop[l].pc = "log"
    /\ SetLoop(l, [loop[l] EXCEPT !.pc = "room"])
    /\ UNCHANGED <<isRunning, ctxDone, redisClosed, ticker, ticks, stopper, rst>>
    /\ LoopFrame

\* select: case <-rm.ticker.C
SelectTick(l) ==
    /\ loop[l].pc = "wait"
    /\ ticker.fired
    /\ ticker' = [ticker EXCEPT !.fired = FALSE]
    /\ SetLoop(l, [loop[l] EXCEPT !.pc = "scan"])
    /\ UNCHANGED <<isRunning, ctxDone, redisClosed, ticks, stopper, rst>>
    /\ LoopFrame

\* select: case <-rm.ctx.Done(): isRunning = false, return (and the
\* deferred ticker.Stop).
SelectDone(l) ==
    /\ loop[l].pc = "wait"
    /\ ctxDone
    /\ isRunning' = FALSE
    /\ ticker' = [ticker EXCEPT !.on = FALSE]
    /\ SetLoop(l, [loop[l] EXCEPT !.pc = "exited"])
    /\ UNCHANGED <<ctxDone, redisClosed, ticks, stopper, rst>>
    /\ LoopFrame

\* Stop: not running is a warning and a return; else cancelFunc().
StopCancel ==
    /\ stopper = "idle"
    /\ IF isRunning
       THEN ctxDone' = TRUE /\ stopper' = "sleep"
       ELSE ctxDone' = ctxDone /\ stopper' = "noop"
    /\ UNCHANGED <<isRunning, redisClosed, ticker, ticks, loop, rst>>
    /\ LoopFrame

\* Stop after its 100 ms sleep: ticker.Stop(), isRunning = false, return.
StopReturn ==
    /\ stopper = "sleep"
    /\ ticker' = [ticker EXCEPT !.on = FALSE]
    /\ isRunning' = FALSE
    /\ stopper' = "returned"
    /\ UNCHANGED <<ctxDone, redisClosed, ticks, loop, rst>>
    /\ LoopFrame

\* Shutdown after Stop: app.redis.Close().
ShutdownClose ==
    /\ stopper \in {"noop", "returned"}
    /\ redisClosed' = TRUE
    /\ stopper' = "closed"
    /\ UNCHANGED <<isRunning, ctxDone, ticker, ticks, loop, rst>>
    /\ LoopFrame

LoopOk(l) ==
    \/ StartCheck(l)
    \/ StartSet(l)
    \/ CheckAllRooms(l)
    \/ NextRoom(l)
    \/ CheckRoomCount(l)
    \/ CheckRoomGame(l)
    \/ CheckRoomExec(l)
    \/ CheckRoomLog(l)
    \/ SelectTick(l)
    \/ SelectDone(l)

LoopErr(l) ==
    \/ CheckAllRoomsErr(l)
    \/ CheckRoomCountErr(l)
    \/ CheckRoomGameErr(l)
    \/ CheckRoomExecErr(l)

Shutdown == StopCancel \/ StopReturn \/ ShutdownClose

\* The application: one goroutine in Start, Shutdown at any moment.
LoopNext == LoopOk(1) \/ LoopErr(1) \/ TickerFires \/ Shutdown

LoopSpec == LoopInit /\ [][LoopNext]_vars

\* The Start goroutine, the ticker and Shutdown are all scheduled: each of
\* them takes its next step when it has one. The ticker fires for as long
\* as it is on; ticks counts its first MaxTicks ticks.
TickerKeepsFiring ==
    /\ ticker.on /\ ~ticker.fired
    /\ ticker' = [ticker EXCEPT !.fired = TRUE]
    /\ ticks' = IF ticks < MaxTicks THEN ticks + 1 ELSE ticks
    /\ UNCHANGED <<isRunning, ctxDone, redisClosed, loop, stopper, rst>>
    /\ LoopFrame

LoopLiveNext == LoopOk(1) \/ LoopErr(1) \/ TickerKeepsFiring \/ Shutdown

LoopLiveSpec ==
    /\ LoopInit
    /\ [][LoopLiveNext]_vars
    /\ WF_vars(LoopOk(1) \/ LoopErr(1))
    /\ WF_vars(TickerKeepsFiring)
    /\ WF_vars(Shutdown)

\* Start called from several goroutines.
RaceNext ==
    \/ \E l \in Starters : LoopOk(l) \/ LoopErr(l)
    \/ TickerFires
    \/ Shutdown

\* The race is looked at over rooms that all hold the same state, one in
\* which a transition is due.
RaceInit ==
    /\ LoopInit
    /\ \E s \in RoomStates :
          /\ Decide(s.count, s.phase) # "none"
          /\ rst = [r \in Rooms |-> s]

RaceSpec == RaceInit /\ [][RaceNext]_vars

\* ------------------------------------------------ phases as stored text
\* ParseGamePhase: the seven names, anything else is waiting.
ParseGamePhase(phase) == IF phase \in PhaseSet THEN phase ELSE "waiting"

\* Texts the phase field of a game hash may hold: the seven names, the
\* empty text of a missing field, and a name the engine does not know.
RawPhases == PhaseSet \cup {"", "dealing"}

\* A room whose game hash was written by any service sharing the store.
RawInit ==
    /\ seated \in SUBSET Players
    /\ churn = 0
    /\ actions = <<>>
    /\ room \in {RoomIn("waiting"), RoomIn("gaming")}
    /\ \E ph \in RawPhases : game = [GameIn("pre_flop") EXCEPT !.phase = ph]
    /\ player = [p \in Players |-> IF p \in seated THEN InHand(p) ELSE NoPlayer]
    /\ MonIdle /\ StopIdle /\ DeckIdle /\ DealIdle /\ PhaseIdle /\ LoopIdle /\ FnIdle /\ ExtIdle

\* The monitor's ticks over such a room.
RawNext == MonitorOk \/ MonitorErr

RawSpec == RawInit /\ [][RawNext]_vars

\* ------------------------------------------- monitor over a used deck
\* A room between two hands: everybody seated, the game waiting, and the
\* cards the previous hand did not draw still in the room's deck list.
HandInit ==
    /\ seated = Players /\ churn = 0 /\ actions = <<>>
    /\ game = GameIn("waiting") /\ room = RoomIn("waiting")
    /\ player = [p \in Players |-> ResetFields]
    /\ deck = SubSeq(CreateDeck, 1, MaxDeck) /\ DrawersIdle
    /\ MonIdle /\ StopIdle /\ DealIdle /\ PhaseIdle /\ LoopIdle /\ FnIdle /\ ExtIdle

HandSpec == HandInit /\ [][Next]_vars

\* ------------------------------------------------------------ claims
\* The tick read the count and an existing game hash.
TickRead == pc = "done" /\ mResult \notin {"err_count", "err_game", "absent"}

LastAction == actions[Len(actions)]

StartedState ==
    /\ game.phase = "pre_flop"
    /\ room.status = "gaming"
    /\ game.game_id # ""
    /\ game.pot = 0
    /\ game.current_bet = 0

StoppedState ==
    /\ room.status = "waiting"
    /\ game.phase = "waiting"
    /\ game.game_id = ""
    /\ game.started_at = ""
    /\ game.pot = 0
    /\ game.current_bet = 0
    /\ game.community_cards = <<>>

OneNewStartEntry ==
    /\ Len(actions) = hLog + 1
    /\ LastAction.action = "game_started"
    /\ LastAction.players_count = mCount

\* C1 as stated: a tick that read phase = waiting and a count >= the minimum
\* runs the start transition, and when its grouped write succeeded the room
\* is started and the log holds exactly one new game_started entry with the
\* count read.
C1_StartRuleAsStated ==
    (TickRead /\ mPhase = "waiting" /\ mCount >= MinPlayersToStart) =>
        /\ mResult \in {"started", "err_start"}
        /\ mResult = "started" => StartedState /\ OneNewStartEntry

\* C1 amended: as C1, the new game_started entry being there when the
\* best-effort log append succeeded, and no entry being added when it failed.
C1_StartRule ==
    (TickRead /\ mPhase = "waiting" /\ mCount >= MinPlayersToStart) =>
        /\ mResult \in {"started", "err_start"}
        /\ mResult = "started" =>
              /\ StartedState
              /\ IF mLogged THEN OneNewStartEntry ELSE Len(actions) = hLog

C1_Witness ==
    /\ pc = "done" /\ mResult = "started" /\ mLogged
    /\ mCount = MinPlayersToStart /\ StartedState /\ OneNewStartEntry

\* C2: a tick that read a phase other than waiting and a count below the
\* minimum runs the stop transition with reason insufficient_players, and
\* when its grouped write succeeded the room and game fields are reset.
C2_StopRule ==
    (TickRead /\ mPhase # "waiting" /\ mCount < MinPlayersToStart) =>
        /\ mResult \in {"stopped", "err_stop"}
        /\ mResult = "stopped" =>
              /\ StoppedState
              /\ mLogged => /\ LastAction.action = "game_stopped"
                            /\ LastAction.reason = "insufficient_players"

C2_Witness ==
    /\ pc = "done" /\ mResult = "stopped" /\ mLogged
    /\ hGame.phase = "finished" /\ hGame.community_cards # <<>> /\ StoppedState

\* C3: a tick writes nothing for a room with no game hash, for a running game
\* with enough players and for a waiting game with too few; and a tick
\* performs at most one transition (one phase edge, one log entry at most).
C3_NoWriteOneTransition ==
    /\ ( /\ pc = "done"
         /\ mResult \notin {"err_count", "err_game"}
         /\ \/ mResult = "absent"
            \/ mResult # "absent" /\ mCount >= MinPlayersToStart /\ mPhase # "waiting"
            \/ mResult # "absent" /\ mCount < MinPlayersToStart /\ mPhase = "waiting" )
       => /\ room = hRoom /\ game = hGame /\ Len(actions) = hLog
          /\ mResult \in {"absent", "none"}
    /\ pc # "idle" =>
          /\ Len(actions) <= hLog + 1
          /\ \/ game.phase = hGame.phase
             \/ hGame.phase = "waiting" /\ game.phase = "pre_flop"
             \/ hGame.phase # "waiting" /\ game.phase = "waiting"

C3_Witness ==
    /\ pc = "done" /\ mResult = "none"
    /\ mCount >= MinPlayersToStart /\ mPhase = "flop"

\* C4: no reader ever sees a partially applied transition: an active phase
\* with an empty game id, phase waiting with a game id, or room status
\* gaming while the phase is waiting.
C4_NoPartialTransition ==
    /\ ~(game.phase = "pre_flop" /\ game.game_id = "")
    /\ ~(game.phase = "waiting" /\ game.game_id # "")
    /\ ~(room.status = "gaming" /\ game.phase = "waiting")

\* C5: a start whose grouped write failed left none of its fields applied
\* (phase waiting, status and game id unchanged), and a start that succeeded
\* (first or retried) ends in the started state.
C5_FailedStartAppliesNothing ==
    /\ (pc = "done" /\ mResult = "err_start") =>
          /\ game.phase = "waiting"
          /\ room = hRoom
          /\ game.game_id = hGame.game_id
    /\ (pc = "done" /\ mResult = "started") => StartedState

\* game_stopped entries in the action log.
StopEvents == Cardinality({i \in 1..Len(actions) : actions[i].action = "game_stopped"})

\* The call of Handle that just ended began on a room whose phase was waiting,
\* and the store answered its reads.
StopCalledOnWaiting ==
    /\ hpc = "done" /\ hResult # "err_read"
    /\ hSnap.room.exists /\ hSnap.game.exists /\ hSnap.game.phase = "waiting"

StopChangedNothing ==
    /\ ~hWrote
    /\ room = hSnap.room /\ game = hSnap.game /\ Len(actions) = hSnap.log

\* Two consecutive calls of Handle, the first on an active room, have ended.
TwoStopsOnActive == hpc = "done" /\ hCalls = 2 /\ hActive0

\* ... and both returned no error.
TwoStopsReturnedNil ==
    TwoStopsOnActive /\ hFirst \in {"nil", "nil_logged"} /\ hResult = "nil"

Consistent ==
    IF Cardinality(seated) >= MinPlayersToStart
    THEN game.phase \notin {"waiting", "finished"}
    ELSE game.phase = "waiting" /\ game.game_id = ""

\* C7: once seating has settled, a room with a game hash reaches, and keeps,
\* a state that agrees with its count.
C7_Reconciles == game.exists => <>[]Consistent

\* C8: the tick that reads a count below the minimum and a phase other than
\* waiting goes straight to the stop transition, and a room left in a hand
\* with a count that stays below the minimum gets back to waiting with its
\* game id cleared.
C8_RaceUnwinds ==
    /\ [][(pc = "game" /\ pc' # "game" /\ game.exists
           /\ mCount < MinPlayersToStart /\ game.phase # "waiting")
          => (pc' = "exec" /\ mKind' = "stop")]_vars
    /\ (game.phase # "waiting" /\ game.exists
        /\ Cardinality(seated) < MinPlayersToStart /\ churn = MaxChurn)
         ~> (game.phase = "waiting" /\ game.game_id = "")

\* A start committed after the count it was decided on had dropped.
C8_Witness ==
    /\ pc = "log" /\ mKind = "start" /\ game.phase = "pre_flop"
    /\ Cardinality(seated) < MinPlayersToStart /\ churn = MaxChurn

\* C9: after a tick stopped a hand, every seated player is reset.
C9_StopResetsPlayers ==
    (pc = "done" /\ mResult = "stopped") =>
        \A p \in seated :
            /\ player[p].bet = 0
            /\ player[p].cards = <<>>
            /\ player[p].status = "waiting"
            /\ player[p].last_action = ""
            /\ ~player[p].is_dealer
            /\ ~player[p].is_small_blind
            /\ ~player[p].is_big_blind

\* C10: under any interleaving of DrawCard / DrawCards calls by several
\* drawers, no card of the room's deck is handed to two callers: the cards
\* returned so far and the cards each running call holds are all different.
C10_NoCardTwice ==
    /\ ~dupReturn
    /\ \A d \in Drawers :
          /\ Cardinality(Range(dCards[d])) = Len(dCards[d])
          /\ Range(dCards[d]) \cap returned = {}
          /\ \A e \in Drawers \ {d} : Range(dCards[d]) \cap Range(dCards[e]) = {}

\* Two DrawCards calls interleaved, each holding a card, after an earlier draw.
C10_Witness ==
    /\ returned # {}
    /\ \A d \in {1, 2} : dpc[d] = "loop" /\ Len(dCards[d]) >= 1

\* The table of the phase graph: (from, to) pairs that are allowed.
PhaseTable ==
    {<<"waiting", "pre_flop">>,
     <<"pre_flop", "flop">>, <<"pre_flop", "showdown">>, <<"pre_flop", "finished">>,
     <<"flop", "turn">>, <<"flop", "showdown">>, <<"flop", "finished">>,
     <<"turn", "river">>, <<"turn", "showdown">>, <<"turn", "finished">>,
     <<"river", "showdown">>, <<"river", "finished">>,
     <<"showdown", "finished">>, <<"showdown", "pre_flop">>,
     <<"finished", "waiting">>, <<"finished", "pre_flop">>}

\* C17: CanTransitionTo answers true exactly for the pairs of the table;
\* every other pair, and any unknown source phase, is rejected.
C17_CanTransitionMatchesTable ==
    gCan # "" => (gCan = "true" <=> <<gPhase, gTo>> \in PhaseTable)

\* An allowed pair that re-deals from showdown, answered true.
C17_Witness == gCan = "true" /\ gPhase = "showdown" /\ gTo = "pre_flop"

\* The canonical order of the phases.
Canonical ==
    <<"waiting", "pre_flop", "flop", "turn", "river", "showdown", "finished">>

\* C19: NextPhase returns the canonical successor of each phase, so seven
\* applications from waiting visit every phase once and return to waiting.
C19_NextPhaseCanonical ==
    /\ \A i \in 1..(Len(gTrail) - 1) : \A k \in 1..7 :
          gTrail[i] = Canonical[k] => gTrail[i + 1] = Canonical[(k % 7) + 1]
    /\ (Len(gTrail) >= 8 /\ gTrail[1] = "waiting") =>
          /\ SubSeq(gTrail, 1, 7) = Canonical
          /\ gTrail[8] = "waiting"

\* A full walk from waiting back to waiting.
C19_Witness == Len(gTrail) = 8 /\ gTrail[1] = "waiting" /\ gTrail[8] = "waiting"

\* C16: every successful start is accompanied by the dealing step: when the
\* monitor has started a hand, the room's deck is a fresh deck of all 52
\* cards, so no card left over from the previous hand can be drawn.
C16_StartDealsFreshDeck ==
    (pc = "done" /\ mResult = "started") =>
        /\ Len(deck) = 52
        /\ Range(deck) = Range(CreateDeck)

\* C18: every phase change the controller writes to the game hash is an
\* edge of the phase graph, one that CanTransitionTo accepts.
C18_PhaseChangesFollowGraph ==
    [][(game.exists /\ game'.phase # game.phase) =>
          CanTransitionTo(game.phase, game'.phase)]_vars

\* C20: in every state reachable through the monitor's start and stop
\* transitions, a room whose status is gaming has a game hash with a
\* non-empty game id.
C20_GamingHasGameID ==
    room.status = "gaming" => (game.exists /\ game.game_id # "")

\* C11: after SaveDeckToRedis of a fresh shuffled deck, with no store
\* failure, the cards DrawCard hands out are the saved sequence from its
\* last card to its first, 52 different cards; the deck list holds what is
\* not drawn yet; DrawCard answers "" only when all 52 are out, and never
\* hands out a 53rd card.
C11_DrawAllDistinct ==
    (kh.saved # <<>> /\ ~kh.failed) =>
        /\ Len(kh.saved) = 52
        /\ Range(kh.saved) = Range(CreateDeck)
        /\ Len(kh.seq) <= 52
        /\ \A i \in 1..Len(kh.seq) : kh.seq[i] = kh.saved[53 - i]
        /\ Cardinality(Range(kh.seq)) = Len(kh.seq)
        /\ deck = SubSeq(kh.saved, 1, 52 - Len(kh.seq))
        /\ kh.last = "empty" => Len(kh.seq) = 52
        /\ kh.last \in {"", "card", "empty"}

C11_Witness == ~kh.failed /\ kh.last = "empty" /\ Len(kh.seq) = 52

\* C12: in whatever order the commands of concurrent SaveDeckToRedis and
\* DrawCard calls reach the store, the room's deck list never holds a card
\* twice and never more than the 52 cards of one saved deck.
C12_DeckNoDuplicates ==
    /\ Cardinality(Range(deck)) = Len(deck)
    /\ Len(deck) <= 52

\* The cards n pops take from a list, in pop order: its last card first.
RECURSIVE Popped(_, _)
Popped(list, n) ==
    IF n = 0 \/ list = <<>>
    THEN <<>>
    ELSE <<list[Len(list)]>> \o Popped(SubSeq(list, 1, Len(list) - 1), n - 1)

Min(a, b) == IF a < b THEN a ELSE b

DrawCardsReturned == dealer[1].pc = "ret" /\ dealer[1].op = "drawN"

\* C13: DrawCards(count) on a deck of s cards, the store not failing,
\* returns nil error and min(count, s) cards, the deck's last cards in pop
\* order; exactly those cards are gone from the deck; it sends at most
\* count pops.
C13_DrawCardsTakesMin ==
    (DrawCardsReturned /\ dealer[1].res # "err_store") =>
        /\ dealer[1].res = "ok"
        /\ Len(dealer[1].out) = Min(dealer[1].n, Len(kh.deck0))
        /\ dealer[1].out = Popped(kh.deck0, dealer[1].n)
        /\ deck = SubSeq(kh.deck0, 1, Len(kh.deck0) - Len(dealer[1].out))
        /\ dealer[1].pops <= dealer[1].n

\* The deck ran out in the middle of the call.
C13_Witness ==
    /\ DrawCardsReturned /\ dealer[1].res = "ok"
    /\ dealer[1].n = 2 /\ Len(kh.deck0) = 1 /\ Len(dealer[1].out) = 1

DealCardsReturned == dealer[1].pc = "ret" /\ dealer[1].op = "hole"

HoleCards == UNION {Range(player[p].cards) : p \in seated}

\* C14: DealCardsToPlayers in a room with k >= 1 seated players, the store
\* not failing, returns nil; it has stored a shuffled deck of the 52 cards,
\* every seated player holds exactly 2 cards, 52 - 2k cards are left in the
\* deck, and the players' cards and the deck are 52 different cards, so no
\* card is held by two players.
C14_DealHoleCards ==
    /\ (DealCardsReturned /\ dealer[1].res # "err_store" /\ seated # {}) =>
          dealer[1].res = "ok"
    /\ (DealCardsReturned /\ dealer[1].res = "ok") =>
          /\ Len(kh.saved) = 52
          /\ Range(kh.saved) = Range(CreateDeck)
          /\ \A p \in seated : Len(player[p].cards) = 2
          /\ Len(deck) = 52 - 2 * Cardinality(seated)
          /\ Cardinality(HoleCards) = 2 * Cardinality(seated)
          /\ HoleCards \cap Range(deck) = {}
          /\ HoleCards \cup Range(deck) = Range(CreateDeck)

\* Three players: 6 cards drawn, 46 left.
C14_Witness ==
    /\ DealCardsReturned /\ dealer[1].res = "ok"
    /\ Cardinality(seated) = 3 /\ Cardinality(HoleCards) = 6 /\ Len(deck) = 46

DealCommunityReturned == dealer[1].pc = "ret" /\ dealer[1].op = "comm"

\* C15: DealCommunityCards(count) by a single dealer on a deck of at least
\* count cards, the store not failing, returns nil error and exactly the
\* count cards it drew, and the stored community cards are the list stored
\* before followed by those cards in draw order.
C15_CommunityCardsAppended ==
    /\ (DealCommunityReturned /\ dealer[1].res # "err_store"
           /\ Len(kh.deck0) >= dealer[1].n) => dealer[1].res = "ok"
    /\ (DealCommunityReturned /\ dealer[1].res = "ok") =>
          /\ Len(dealer[1].out) = dealer[1].n
          /\ dealer[1].out = Popped(kh.deck0, dealer[1].n)
          /\ deck = SubSeq(kh.deck0, 1, Len(kh.deck0) - dealer[1].n)
          /\ game.community_cards = kh.board0 \o dealer[1].out

\* A turn card dealt onto a flop.
C15_Witness ==
    /\ DealCommunityReturned /\ dealer[1].res = "ok"
    /\ dealer[1].n = 1 /\ Len(kh.board0) = 3 /\ Len(game.community_cards) = 4

\* C21: in every state reached through DealCommunityCards calls the stored
\* community-card list of the room has 0, 3, 4 or 5 entries.
C21_BoardSizes == Len(game.community_cards) \in {0, 3, 4, 5}

\* The monitor's grouped write succeeded and the log append did not.
LogAppendFailed ==
    /\ pc = "done" /\ mKind \in {"start", "stop"}
    /\ mResult \notin {"err_start", "err_stop"} /\ ~mLogged

\* C26: when the append of the game_started / game_stopped entry fails, the
\* transition still returns success, the room and game fields it wrote stay
\* in place, and the log has no new entry.
C26_LogFailureNotPropagated ==
    LogAppendFailed =>
        /\ mResult = (IF mKind = "start" THEN "started" ELSE "stopped")
        /\ mKind = "start" => StartedState
        /\ mKind = "stop" => StoppedState
        /\ Len(actions) = hLog

C26_Witness ==
    /\ LogAppendFailed /\ mKind = "start" /\ mResult = "started" /\ StartedState
    /\ hGame.phase = "waiting"

\* Handle got past its checks and its grouped write.
StopCommitted ==
    /\ hpc = "done" /\ hSnap.room.exists /\ IsGameActive(hSnap.game)
    /\ hResult \notin {"err_read", "err_exec"}

\* A pass of the reset loop that changed no player hash.
ResetPassWithoutWrite == hpc = "reset" /\ hIds' # hIds /\ player' = player

\* C27: a failed reset of one player leaves Handle in its loop with the
\* other ids still to do and the game-level stop in place; whatever resets
\* or the read of the player set failed, Handle goes through every id, keeps
\* the stop it committed and returns nil.
C27_ResetsAdvisory ==
    /\ [](StopCommitted =>
            /\ hResult = "nil"
            /\ hIds = {}
            /\ StoppedState /\ game.current_player_position = "")
    /\ [][ResetPassWithoutWrite =>
            /\ hpc' = "reset"
            /\ hIds' \subseteq hIds /\ Cardinality(hIds') = Cardinality(hIds) - 1
            /\ hResult' = hResult /\ room' = room /\ game' = game]_vars

\* With nobody sitting down or standing up: one player's reset failed and
\* another player was reset all the same.
C27_Witness ==
    /\ StopCommitted /\ hResult = "nil" /\ churn = 0 /\ StoppedState
    /\ \E p, q \in seated : player[p] = InHand(p) /\ player[q] = ResetFields

\* C30: DealCardsToPlayers on a room with no seated player, the read of the
\* player set not failing, returns the "no players" error; it has created
\* no deck, the stored deck is the one the call found and no player hash
\* was written.
C30_NoPlayersNoDeal ==
    (DealCardsReturned /\ seated = {} /\ dealer[1].res # "err_store") =>
        /\ dealer[1].res = "err_no_players"
        /\ dealer[1].deck = <<>>
        /\ deck = kh.deck0
        /\ player = [p \in Players |-> NoPlayer]

\* The deck a previous hand left is still there.
C30_Witness ==
    /\ DealCardsReturned /\ seated = {} /\ dealer[1].res = "err_no_players"
    /\ deck = kh.deck0 /\ Len(deck) = MaxDeck

\* C28: every deck CreateDeck returns has exactly 52 different codes of two
\* characters, one for each of the 13 ranks and 4 suits, suit by suit and
\* rank by rank inside a suit, the same on every call.
C28_CreateDeckCanonical ==
    \A k \in 1..Len(fDeck) :
        /\ Len(fDeck[k]) = 52
        /\ Cardinality(Range(fDeck[k])) = 52
        /\ \A i \in 1..52 : Len(fDeck[k][i]) = 2
        /\ Range(fDeck[k]) = {r \o s : r \in Range(Ranks), s \in Range(Suits)}
        /\ \A s \in 1..4 : \A r \in 1..13 :
              fDeck[k][13 * (s - 1) + r] = Ranks[r] \o Suits[s]
        /\ fDeck[k] = fDeck[1]

C28_Witness ==
    /\ Len(fDeck) = 2
    /\ fDeck[1][1] = "AH" /\ fDeck[1][14] = "AD" /\ fDeck[2][52] = "KS"

\* How many times a card is in a sequence.
Count(card, seq) == Cardinality({i \in 1..Len(seq) : seq[i] = card})

\* C29: whatever the random source answers, the sequence ShuffleDeck works
\* on and returns has the length of its input and holds every card as many
\* times as the input does, and the caller's sequence stays as it was.
C29_ShuffleIsPermutation ==
    fpc \in {"loop", "ret"} =>
        /\ fIn = fArg
        /\ Len(fOut) = Len(fArg)
        /\ \A c \in Range(fArg) \cup Range(fOut) : Count(c, fOut) = Count(c, fArg)

\* A returned order that differs from the input, on an input with a
\* repeated card.
C29_Witness ==
    /\ fpc = "ret" /\ fOut # fArg /\ fIn = fArg
    /\ Len(fArg) >= 3 /\ Cardinality(Range(fArg)) < Len(fArg)


InTick(l) == loop[l].pc \in {"room", "count", "game", "exec", "log"}

\* C25: a store error met while one room is evaluated never ends the tick
\* or the loop: inside a tick the rooms evaluated and the rooms still to
\* come are together the rooms listed, at the end of the tick every listed
\* room has been evaluated, failed ones included, and the loop leaves only
\* on cancellation, back at its select otherwise.
C25_RoomErrorsIsolated ==
    /\ InTick(1) => /\ loop[1].seen \cup Range(loop[1].todo) = loop[1].listed
                    /\ loop[1].bad \subseteq loop[1].seen
    /\ loop[1].pc = "wait" => /\ loop[1].seen = loop[1].listed
                              /\ loop[1].bad \subseteq loop[1].seen
    /\ loop[1].pc = "exited" => ctxDone

C25_Witness ==
    /\ loop[1].pc = "wait"
    /\ ~redisClosed /\ ~ctxDone
    /\ 1 \in loop[1].bad
    /\ loop[1].seen = Rooms
    /\ ticks > 0

RunningLoops ==
    {l \in Starters : loop[l].pc \in {"scan", "room", "count", "game", "exec", "log", "wait"}}

\* C22: at most one loop executes ticks, also when Start calls race.
C22_OneLoop == Cardinality(RunningLoops) <= 1

InStoreCall(l) ==
    \/ loop[l].pc \in {"scan", "count", "game", "exec", "log"}
    \/ loop[l].pc = "room" /\ loop[l].todo # <<>>

\* C23: once Stop has returned and isRunning is false, no loop evaluates a
\* room or calls the store.
C23_QuietAfterStop ==
    (stopper \in {"returned", "closed"} /\ ~isRunning) =>
        \A l \in Starters : ~InStoreCall(l)

\* C24: when the context is cancelled in the middle of a tick, no further
\* room is evaluated in that scan.
C24_NoRoomAfterCancel ==
    [][\A l \in Starters :
          (ctxDone /\ ~loop[l].ctx0 /\ loop[l].pc = "room")
              => loop'[l].pc # "count"]_vars


\* C31: when ClearAllCards returns success, the stored deck is gone, the
\* community-card list is empty and no seated player holds a card.
C31_ClearedOnSuccess ==
    (dealer[1].pc = "ret" /\ dealer[1].op = "clear" /\ dealer[1].res = "ok") =>
        /\ deck = <<>>
        /\ game.community_cards = <<>>
        /\ \A p \in seated : player[p].cards = <<>>


StartWroteNothing ==
    room = sh.room0 /\ game = sh.game0 /\ Len(actions) = sh.log0

\* C32: GameStartHandler.Handle returns an error and writes nothing when the
\* room does not exist or the count it reads is below the minimum; it returns
\* nil, writing nothing and appending no event, when a hand is active.
C32_StartValidation ==
    (sh.pc = "done" /\ sh.res # "err_read") =>
        /\ ~sh.room0.exists => sh.res = "err_no_room"
        /\ (sh.room0.exists /\ IsGameActive(sh.game0)) => sh.res = "nil_active"
        /\ (sh.room0.exists /\ ~IsGameActive(sh.game0) /\ sh.actual < MinPlayersHandle)
              => sh.res = "err_players"
        /\ sh.res = "err_players" => sh.actual < MinPlayersHandle
        /\ sh.res \in {"err_no_room", "err_players", "nil_active"} => StartWroteNothing

C32_Witness ==
    /\ sh.pc = "done" /\ sh.res = "err_players"
    /\ sh.room0.exists /\ sh.game0.phase = "finished"
    /\ Cardinality(seated) = 1


\* C33: a stored phase that is none of the seven names is handled as
\* waiting: checkRoom decides as it does for waiting, and IsGameActive
\* answers as it does for waiting.
C33_UnknownPhaseIsWaiting ==
    (pc \in {"exec", "log", "done"} /\ mResult \notin {"err_count", "err_game", "absent"}) =>
        /\ mKind = Decide(mCount, ParseGamePhase(mPhase))
        /\ IsGameActive(hGame) = IsActive(ParseGamePhase(mPhase))


\* C34: once Stop has returned, whenever it was called after the Start
\* goroutine was launched, the loop eventually exits and isRunning ends up
\* false with no loop ticking.
C34_StopEndsLoop ==
    (stopper \in {"noop", "returned"}) ~> (~isRunning /\ loop[1].pc = "exited")


\* C35: a waiting room is started once: the action log never holds two
\* game_started events with no game_stopped event between them.
C35_StartedOnce ==
    \A i \in 1..(Len(actions) - 1) :
        ~(actions[i].action = "game_started" /\ actions[i + 1].action = "game_started")


RECURSIVE ApplyAll(_, _, _)
\* A whole pipeline applied to the (room info, game state) pair.
ApplyAll(cmds, r, g) ==
    IF cmds = <<>> THEN <<r, g>>
    ELSE ApplyAll(Tail(cmds), ApplyCmd(Head(cmds), r, g)[1], ApplyCmd(Head(cmds), r, g)[2])

\* The fields the two stop implementations both write.
StopFields(r, g) ==
    <<r.status, g.phase, g.game_id, g.started_at, g.pot, g.current_bet, g.community_cards>>

\* C36: from a room with a game in any phase but waiting, a successful
\* GameStopHandler.Handle leaves the room status, phase, game id, started-at,
\* pot, current_bet and community cards as RoomMonitor.handleGameStop does.
C36_StopsAgree ==
    (/\ hpc = "done" /\ hResult = "nil"
     /\ hSnap.room.exists /\ hSnap.game.exists
     /\ hSnap.game.phase # "waiting") =>
        StopFields(room, game) =
            StopFields(ApplyAll(StopCmds, hSnap.room, hSnap.game)[1],
                       ApplyAll(StopCmds, hSnap.room, hSnap.game)[2])


\* C37: after a committed stop, while the phase is waiting, the stored
\* community-card list is empty, also with DealCommunityCards in flight.
C37_BoardEmptyAfterStop ==
    (/\ Len(actions) > 0
     /\ actions[Len(actions)].action = "game_stopped"
     /\ game.phase = "waiting") =>
        game.community_cards = <<>>


\* C38: every card DrawCards or DealCommunityCards has taken from the deck
\* is returned to the caller when the call returns and, for
\* DealCommunityCards, is in the stored community list.
C38_NoCardLost ==
    [][(/\ dealer[1].op \in {"drawN", "comm"}
        /\ dealer[1].pc # "ret" /\ dealer'[1].pc = "ret") =>
           /\ Range(dealer[1].cards) \subseteq Range(dealer'[1].out)
           /\ dealer[1].op = "comm" =>
                  Range(dealer[1].cards) \subseteq Range(game'.community_cards)]_vars

\* C39: when DealCardsToPlayers returns an error, no player served before
\* the failing one holds hole cards written by that call.
C39_HoleCardsAllOrNothing ==
    (dealer[1].pc = "ret" /\ dealer[1].op = "hole" /\ dealer[1].res # "ok") =>
        \A p \in Players \ {dealer[1].who} :
            player[p].cards = (IF p \in seated THEN InHand(p).cards ELSE <<>>)


\* C40: once CleanupRoom has deleted the room's keys, the monitor does not
\* recreate the room's info record or its game record.
C40_CleanupIsFinal == cleaned => (~room.exists /\ ~game.exists)
=============================================================================
